---------------------------- MODULE Spec2Model ----------------------------
(***************************************************************************)
(* titiler-stacapi: the result cache in front of the catalog searches      *)
(* (backend.py, dependencies.py, factory.py) and the per-request           *)
(* validation of the OGC WMTS / WMS endpoints (factory.py).                *)
(*                                                                         *)
(*   Spec     the three memoised catalog operations called from the        *)
(*            request threads of the service                               *)
(*   SpecSeq  one caller of get_assets, its calls in sequence              *)
(*   SpecOGC  one /wmts or /wms request, from its query string to its      *)
(*            response                                                     *)
(*   SpecREST one request to the REST tile route, from its path to its     *)
(*            response                                                     *)
(*   SpecMap  one GetMap or GetFeatureInfo request in the branches of the  *)
(*            /wms handler behind its registry lookup                      *)
(*   SpecTile one call of STACAPIBackend.tile                              *)
(*   SpecRegistry  the layer registry built again from one catalog         *)
(*   SpecRetry     the request of a catalog call and its retries           *)
(*   SpecSpelling  one /wmts or /wms request in the letter cases a client  *)
(*                 may send it in                                          *)
(*   SpecAggregation  one call of Client.get_aggregation                   *)
(*   SpecProtocols  /wmts and /wms requests looking up the registry of     *)
(*                  one catalog                                            *)
(*   SpecClients  the calls of two clients with their own headers, in      *)
(*                sequence, on a catalog that may fail                     *)
(*   SpecServe  tile and map requests served from a registry built from    *)
(*              a catalog                                                  *)
(***************************************************************************)
EXTENDS Integers, Sequences, FiniteSets, TLC

None == "None"

(***************************************************************************)
(* Bounds of the cache model.                                              *)
(***************************************************************************)
MaxTtl   == 2      \* largest configured TTL (ticks of the cache timer)
MaxSize  == 2      \* largest configured maxsize
MaxTime  == 3      \* the timer runs 0..MaxTime
MaxCalls == 2      \* calls started in one behaviour of the threaded service
MaxItems == 2      \* items a search returns for a tile
MaxTile  == 1      \* tile indices run 0..MaxTile
MaxSeqCalls == 3   \* calls started in one behaviour of a single caller

Threads == {"t1", "t2"}

Range(s) == {s[i] : i \in DOMAIN s}

RECURSIVE SumOver(_, _)
SumOver(f, S) ==
    IF S = {} THEN 0
    ELSE LET x == CHOOSE y \in S : TRUE IN f[x] + SumOver(f, S \ {x})

(***************************************************************************)
(* settings.py: CacheSettings.  The environment gives ttl, maxsize and     *)
(* disable; the validator forces both numbers to 0 when disable is set.    *)
(***************************************************************************)
check_enable_keep(s) == s

check_enable(s) ==
    IF s.disable THEN [s EXCEPT !.ttl = 0, !.maxsize = 0] ELSE s

CacheEnvironments ==
    { [ttl |-> MaxTtl, maxsize |-> MaxSize, disable |-> FALSE],
      [ttl |-> MaxTtl, maxsize |-> 1,       disable |-> FALSE],
      [ttl |-> 0,      maxsize |-> MaxSize, disable |-> FALSE],
      [ttl |-> MaxTtl, maxsize |-> 0,       disable |-> FALSE],
      [ttl |-> MaxTtl, maxsize |-> MaxSize, disable |-> TRUE] }

CacheSettings(env) == check_enable(env)

(***************************************************************************)
(* Python values that take part in a cache key.  A dict is the sequence of *)
(* its (key, value) entries in insertion order; two dicts are equal when   *)
(* they hold the same entries, whatever the order.                         *)
(***************************************************************************)
DictEq(a, b) == Range(a) = Range(b)

\* json.dumps writes the entries of a dict in insertion order.
JsonDumps(d) == <<"json", d>>

\* str() of a geojson geometry: its type and coordinates.
Str(g) == <<"str", g>>

H0 == << >>
H1 == << <<"Authorization", "tokA">> >>

Q0  == << <<"collections", "c1">>, <<"datetime", "d1">> >>
Q0r == << <<"datetime", "d1">>, <<"collections", "c1">> >>
Q1  == << <<"collections", "c2">>, <<"datetime", "d1">> >>

NoKw == {}
KwFields == { <<"fields", "f1">> }

\* cachetools.keys.hashkey: the positional arguments followed by the keyword
\* items sorted by name; a set of (name, value) pairs is that sorted form.
hashkey(args, kwargs) == <<args, kwargs>>

(***************************************************************************)
(* The calls the request threads make.  Every call record has the same     *)
(* fields; the ones an operation does not take are None.                   *)
(***************************************************************************)
AssetsCall(url, headers, geom, query, kw) ==
    [op |-> "get_assets", url |-> url, headers |-> headers, geom |-> geom,
     query |-> query, kw |-> kw, collection_id |-> None, item_id |-> None,
     tms |-> None]

ItemCall(url, collection_id, item_id, headers) ==
    [op |-> "get_stac_item", url |-> url, headers |-> headers, geom |-> None,
     query |-> None, kw |-> NoKw, collection_id |-> collection_id,
     item_id |-> item_id, tms |-> None]

LayersCall(url, headers, tms) ==
    [op |-> "get_layer_from_collections", url |-> url, headers |-> headers,
     geom |-> None, query |-> None, kw |-> NoKw, collection_id |-> None,
     item_id |-> None, tms |-> tms]

BaseAssets == AssetsCall("u1", H0, "g1", Q0, NoKw)

\* The base call with the entries of its query in the other order.
BaseReordered == AssetsCall("u1", H0, "g1", Q0r, NoKw)

\* The calls that change exactly one component of the base call.
AssetsVariants ==
    { AssetsCall("u2", H0, "g1", Q0, NoKw),
      AssetsCall("u1", H1, "g1", Q0, NoKw),
      AssetsCall("u1", H0, "g2", Q0, NoKw),
      AssetsCall("u1", H0, "g1", Q1, NoKw),
      AssetsCall("u1", H0, "g1", Q0, KwFields) }

AssetsCalls == {BaseAssets, BaseReordered} \cup AssetsVariants

ItemCalls == { ItemCall("u1", "c1", "i1", H0), ItemCall("u1", "c1", "i2", H0) }

LayersCalls == { LayersCall("u1", H0, None), LayersCall("u1", H0, "tms") }

\* the call was made without the supported_tms argument
NotPassed == "not passed"

\* /wmts: get_layer_from_collections(api_params, supported_tms=self.supported_tms)
WmtsLayers == LayersCall("u1", H0, "tms")

\* /wms: get_layer_from_collections(api_params)
WmsLayers == LayersCall("u1", H0, NotPassed)

\* the calls of each operation with the headers of another client
OtherClient ==
    { AssetsCall("u1", H1, "g1", Q0, NoKw), ItemCall("u1", "c1", "i1", H1),
      LayersCall("u1", H1, "tms") }

Calls ==
    AssetsCalls \cup ItemCalls \cup LayersCalls \cup {WmsLayers} \cup OtherClient

\* What the request threads of one behaviour call: one cached operation, with
\* two argument tuples.
ServiceScenes ==
    { {BaseAssets, AssetsCall("u1", H1, "g1", Q0, NoKw)}, ItemCalls, LayersCalls }

\* What two clients call: one operation, with the headers of each.
ClientScenes ==
    { {BaseAssets, AssetsCall("u1", H1, "g1", Q0, NoKw)},
      {ItemCall("u1", "c1", "i1", H0), ItemCall("u1", "c1", "i1", H1)},
      {WmtsLayers, LayersCall("u1", H1, "tms")} }

\* What the two protocol endpoints call on one catalog.
ProtocolScenes == { {WmtsLayers, WmsLayers} }

\* What a single caller of get_assets calls: the base tuple, one tuple that
\* differs from it in one component, and the reordered base tuple.
SequentialScenes == { {BaseAssets, v, BaseReordered} : v \in AssetsVariants }

Ops == {"get_assets", "get_stac_item", "get_layer_from_collections"}

get_assets_key_without_geom(c) ==
    hashkey(<<c.url, JsonDumps(c.query), JsonDumps(c.headers)>>, c.kw)

\* backend.py: key= of get_assets
get_assets_key(c) ==
    hashkey(<<c.url, Str(c.geom), JsonDumps(c.query), JsonDumps(c.headers)>>, c.kw)

\* the key of get_stac_item without the headers
get_stac_item_key_without_headers(c) ==
    hashkey(<<c.url, c.collection_id, c.item_id>>, NoKw)

\* dependencies.py: key= of get_stac_item
get_stac_item_key(c) ==
    hashkey(<<c.url, c.collection_id, c.item_id, JsonDumps(c.headers)>>, NoKw)

\* factory.py: key= of get_layer_from_collections (supported_tms is not in it)
get_layer_key(c) ==
    hashkey(<<c.url, JsonDumps(c.headers)>>, NoKw)

\* a key function that takes whatever it is called with
key_raises_never(c) == FALSE

\* key(*args, **kwargs): the key function of get_layer_from_collections has
\* two parameters without defaults, so the call with api_params alone
\* raises TypeError
key_raises(c) == c.op = "get_layer_from_collections" /\ c.tms = NotPassed

KeyOf(c) ==
    CASE c.op = "get_assets"    -> get_assets_key(c)
      [] c.op = "get_stac_item" -> get_stac_item_key(c)
      [] OTHER                  -> get_layer_key(c)

OpKeys == { <<c.op, KeyOf(c)>> : c \in Calls }

\* Two calls are the same tuple of Python values: dicts compare by content.
SameTuple(c, d) ==
    /\ c.op = d.op /\ c.url = d.url /\ c.geom = d.geom /\ c.kw = d.kw
    /\ c.collection_id = d.collection_id /\ c.item_id = d.item_id
    /\ c.tms = d.tms
    /\ (IF c.query = None \/ d.query = None THEN c.query = d.query
        ELSE DictEq(c.query, d.query))
    /\ DictEq(c.headers, d.headers)

(***************************************************************************)
(* cachetools.TTLCache(maxsize, ttl), as the three decorators build it.    *)
(* A cache is the sequence of its entries in the order of its links        *)
(* (least recently used first).  Every entry has the same ttl, so the      *)
(* entries that expire() removes are exactly those with expires <= time.   *)
(***************************************************************************)
IndexOf(cache, key) ==
    IF \E i \in DOMAIN cache : cache[i].key = key
    THEN CHOOSE i \in DOMAIN cache : cache[i].key = key
    ELSE 0

Without(cache, i) ==
    [j \in 1..(Len(cache) - 1) |-> IF j < i THEN cache[j] ELSE cache[j + 1]]

MoveToEnd(cache, i) == Append(Without(cache, i), cache[i])

\* TTLCache.__getitem__: a link is live while timer() < link.expires
Live_inclusive(e, time) == time <= e.expires

Live(e, time) == time < e.expires

expire(cache, time) == SelectSeq(cache, LAMBDA e : Live(e, time))

\* TTLCache.__getitem__: the link is moved to the end, then its expiry read.
\* The result is [hit, entry, cache].
ttl_getitem(cache, key, time) ==
    LET i == IndexOf(cache, key) IN
    IF i = 0 THEN [hit |-> FALSE, entry |-> None, cache |-> cache]
    ELSE [hit   |-> Live(cache[i], time),
          entry |-> cache[i],
          cache |-> MoveToEnd(cache, i)]

RECURSIVE popitems(_, _)
\* Cache.__setitem__: while currsize + size > maxsize: popitem()
popitems(cache, maxsize) ==
    IF Len(cache) + 1 > maxsize /\ Len(cache) > 0
    THEN popitems(Tail(cache), maxsize)
    ELSE cache

\* TTLCache.__setitem__ under the wrapper's "except ValueError: pass".
ttl_setitem(cache, key, value, time, cfg) ==
    LET live == expire(cache, time)
        i    == IndexOf(live, key)
        room == IF i = 0 THEN popitems(live, cfg.maxsize) ELSE Without(live, i)
    IN  IF 1 > cfg.maxsize
        THEN live
        ELSE Append(room, [key |-> key, value |-> value,
                           expires |-> time + cfg.ttl, stored |-> time])

(***************************************************************************)
(* State of the cache model.                                               *)
(***************************************************************************)
VARIABLES
    cfg,        \* CacheSettings() as the three modules read it at import
    now,        \* the cache timer
    caches,     \* op -> the TTLCache of that operation
    thr,        \* thread -> the call it is in
    nsearch,    \* <<op, key>> -> catalog calls issued for it
    called,     \* the calls started so far
    ncalls,     \* how many calls were started
    firstCall,  \* the time the first call started, -1 before it
    scene,      \* the callers, the calls they choose from and how many
    mosaic,     \* the call of STACAPIBackend.tile and its result, or NoTile
    registry,   \* the catalog, the clock and the layer registries built
    fetch,      \* the HTTP request of a catalog call and its retries
    agg,        \* the call of Client.get_aggregation and its result
    endpoint,   \* the route of the request: "wmts", "wms" or None
    raw,        \* request.query_params: name as sent -> value
    edits,      \* how many parameters of the request were set or dropped
    resp        \* the response, NoResponse until the handler ran

coreVars == <<cfg, now, caches, thr, nsearch, called, ncalls, firstCall, scene>>

unitVars == <<mosaic, registry, fetch, agg>>

cacheVars == <<coreVars, unitVars>>

ogcVars == <<endpoint, raw, edits, resp>>

vars == <<cacheVars, ogcVars>>

\* the search handed to the mosaic backend: none
NoSearch == [collections |-> << >>, datetime |-> << >>]

\* a response: status, body, the detail (msg with the values v, keys, list
\* it interpolates), the template version of a capabilities document, the
\* collaborators called, the search handed to the backend, the names of
\* the headers the response is given, and the bbox and CRS a map was asked
\* of the backend for
Reply(status, body, effects) ==
    [status |-> status, body |-> body, msg |-> "", v |-> << >>, keys |-> {},
     list |-> << >>, version |-> None, effects |-> effects,
     searched |-> FALSE, search |-> NoSearch, headers |-> {},
     bbox |-> << >>, crs |-> None]

NoResponse == Reply(0, "none", << >>)

Answered == resp.body # "none"

\* STACAPIBackend.tile was not called
NoTile ==
    [tile_x |-> -1, tile_y |-> -1, tile_z |-> -1, search_query |-> None,
     kwargs |-> << >>, get_assets |-> [geom |-> << >>, kwargs |-> << >>],
     reader_kwargs |-> << >>, mosaic_assets |-> << >>, readable |-> {},
     broken |-> {},
     result |-> [kind |-> "none", exc |-> None, v |-> << >>,
                 opened |-> << >>, used_assets |-> << >>, timings |-> << >>]]

\* get_layer_from_collections was not called
NoBuild ==
    [catalog |-> [supported |-> << >>, collections |-> << >>],
     supported_tms |-> << >>,
     today |-> [day |-> 0, ms |-> 0], built |-> << >>]

\* no method of the backend or of the catalog client is being called
\* no catalog call is being made
NoFetch ==
    [pc |-> "idle", op |-> None, method |-> None, catalog |-> None,
     failures |-> 0, retry |-> 0, total |-> 0, attempts |-> 0,
     result |-> None]

\* Client.get_aggregation was not called
NoLookup ==
    [client |-> [supported |-> << >>,
                 aggregate |-> [empty |-> TRUE, aggregations |-> << >>]],
     collection_id |-> None, aggregation |-> None, params |-> << >>,
     called |-> FALSE,
     result |-> [value |-> << >>, requests |-> << >>, warned |-> FALSE]]

AtRest ==
    /\ mosaic = NoTile
    /\ registry = NoBuild
    /\ fetch = NoFetch
    /\ agg = NoLookup

NoRequest ==
    /\ endpoint = None
    /\ raw = << >>
    /\ edits = 0
    /\ resp = NoResponse

Idle == [pc |-> "idle", call |-> None, key |-> None, value |-> None,
         hit |-> FALSE, at |-> -1, entry |-> None]

InFlight(t) == thr[t].pc \in {"miss", "fetched"}

Start ==
    /\ cfg \in { CacheSettings(env) : env \in CacheEnvironments }
    /\ now = 0
    /\ caches = [op \in Ops |-> << >>]
    /\ thr = [t \in Threads |-> Idle]
    /\ nsearch = [k \in OpKeys |-> 0]
    /\ called = {}
    /\ ncalls = 0
    /\ firstCall = -1
    /\ AtRest
    /\ NoRequest

\* The service: its endpoints run on the threads of the request pool.
Init ==
    /\ Start
    /\ scene \in { [callers |-> Threads, calls |-> cs, budget |-> MaxCalls,
                     outcomes |-> {"found"}] :
                      cs \in ServiceScenes }

\* One caller calling get_assets in sequence.
InitSeq ==
    /\ Start
    /\ scene \in { [callers |-> {"t1"}, calls |-> cs, budget |-> MaxSeqCalls,
                     outcomes |-> {"found"}] :
                      cs \in SequentialScenes }

\* The wrapper of cachetools.cached, first half: k = key(...); return cache[k]
Call(t, c) ==
    /\ t \in scene.callers /\ c \in scene.calls
    /\ thr[t].pc \in {"idle", "done", "raised"}
    /\ ncalls < scene.budget
    /\ IF key_raises(c)
       THEN /\ caches' = caches
            /\ thr' = [thr EXCEPT ![t] =
                   [pc |-> "raised", call |-> c, key |-> None, value |-> None,
                    hit |-> FALSE, at |-> now, entry |-> None]]
       ELSE LET k == KeyOf(c)
                r == ttl_getitem(caches[c.op], k, now)
            IN /\ caches' = [caches EXCEPT ![c.op] = r.cache]
               /\ thr' = [thr EXCEPT ![t] =
                      IF r.hit
                      THEN [pc |-> "done", call |-> c, key |-> k,
                            value |-> r.entry.value, hit |-> TRUE, at |-> now,
                            entry |-> r.entry]
                      ELSE [pc |-> "miss", call |-> c, key |-> k, value |-> None,
                            hit |-> FALSE, at |-> now, entry |-> None]]
    /\ called' = called \cup {c}
    /\ ncalls' = ncalls + 1
    /\ firstCall' = IF firstCall = -1 THEN now ELSE firstCall
    /\ UNCHANGED <<cfg, now, nsearch, scene>>
    /\ UNCHANGED <<unitVars, ogcVars>>

\* what the catalog does with the request of a call: it finds items, finds
\* none, or fails until the retries are exhausted
CatalogOutcomes == {"found", "empty", "fails"}

\* a body that returns what it has instead of raising
raises_never(op, outcome) == FALSE

\* the body raises: the exception of the exhausted retries, or the 404 of
\* get_stac_item when the search has no item
raises(op, outcome) ==
    outcome = "fails" \/ (outcome = "empty" /\ op = "get_stac_item")

\* v = func(*args, **kwargs): the catalog is queried; the value is tagged with
\* the number of the search that produced it, with the call that computed
\* it and with what the catalog found.  An exception of the body leaves the
\* wrapper before cache[k] = v.
Search(t) ==
    /\ thr[t].pc = "miss"
    /\ \E outcome \in scene.outcomes :
         LET ok == <<thr[t].call.op, thr[t].key>> IN
         /\ nsearch' = [nsearch EXCEPT ![ok] = @ + 1]
         /\ thr' = [thr EXCEPT
                ![t].pc = IF raises(thr[t].call.op, outcome)
                          THEN "raised" ELSE "fetched",
                ![t].value = IF raises(thr[t].call.op, outcome) THEN None
                             ELSE <<ok, nsearch[ok] + 1, thr[t].call, outcome>>]
    /\ UNCHANGED <<cfg, now, caches, called, ncalls, firstCall, scene>>
    /\ UNCHANGED <<unitVars, ogcVars>>

\* The wrapper, second half: cache[k] = v (a ValueError is passed); return v
Store(t) ==
    /\ thr[t].pc = "fetched"
    /\ caches' = [caches EXCEPT ![thr[t].call.op] =
                     ttl_setitem(@, thr[t].key, thr[t].value, now, cfg)]
    /\ thr' = [thr EXCEPT ![t].pc = "done"]
    /\ UNCHANGED <<cfg, now, nsearch, called, ncalls, firstCall, scene>>
    /\ UNCHANGED <<unitVars, ogcVars>>

Tick ==
    /\ now < MaxTime
    /\ now' = now + 1
    /\ UNCHANGED <<cfg, caches, thr, nsearch, called, ncalls, firstCall, scene>>
    /\ UNCHANGED <<unitVars, ogcVars>>

Next ==
    \/ \E t \in Threads, c \in Calls : Call(t, c)
    \/ \E t \in Threads : Search(t)
    \/ \E t \in Threads : Store(t)
    \/ Tick

Spec == Init /\ [][Next]_vars

SpecSeq == InitSeq /\ [][Next]_vars

\* /wmts and /wms requests, on the threads of the request pool, looking up
\* the registry of one catalog.
InitProtocols ==
    /\ Start
    /\ scene \in { [callers |-> Threads, calls |-> cs, budget |-> MaxCalls + 1,
                     outcomes |-> {"found"}] :
                      cs \in ProtocolScenes }

SpecProtocols == InitProtocols /\ [][Next]_vars

\* The calls of two clients with their own headers, one operation, reaching
\* the service one after the other; the catalog may find nothing or fail.
InitClients ==
    /\ Start
    /\ scene \in { [callers |-> {"t1"}, calls |-> cs, budget |-> MaxSeqCalls,
                     outcomes |-> CatalogOutcomes] :
                      cs \in ClientScenes }

SpecClients == InitClients /\ [][Next]_vars

(***************************************************************************)
(* The OGC endpoints /wmts and /wms (key-value encoding).                  *)
(*                                                                         *)
(* A request is its query string: parameter name as sent -> value.  A      *)
(* request carries each parameter once, in one spelling.  The response     *)
(* records the status, the detail (the message of the code with the values *)
(* it interpolates), the collaborators the handler called, and the search  *)
(* it handed to the mosaic backend.                                        *)
(***************************************************************************)
MaxEdits == 2      \* parameters set or dropped before the request is sent

\* str.lower() on the names and values the requests are made of.
LowerPairs ==
    { <<"SERVICE", "service">>, <<"REQUEST", "request">>,
      <<"VERSION", "version">>, <<"LAYER", "layer">>, <<"TIME", "time">>,
      <<"WMTS", "wmts">>, <<"WMS", "wms">>,
      <<"GetTile", "gettile">>, <<"GETTILE", "gettile">>,
      <<"GetFeatureInfo", "getfeatureinfo">>,
      <<"GetCapabilities", "getcapabilities">>,
      <<"GetMap", "getmap">>, <<"TRUE", "true">>, <<"FALSE", "false">> }

\* the lower-case text of each text that has upper-case letters
LowerMap ==
    [s \in {p[1] : p \in LowerPairs} |->
        (CHOOSE p \in LowerPairs : p[1] = s)[2]]

Lower(s) == IF s \in DOMAIN LowerMap THEN LowerMap[s] ELSE s

\* the parameters under the names they were sent with
LowerKeys_as_sent(q) == q

\* req = {k.lower(): v for k, v in request.query_params.items()}
LowerKeys(q) ==
    [k \in {Lower(r) : r \in DOMAIN q} |->
        q[CHOOSE r \in DOMAIN q : Lower(r) = k]]

Has(req, k) == k \in DOMAIN req

\* dict.get(k, d)
Get(req, k, d) == IF k \in DOMAIN req THEN req[k] ELSE d

\* truth value of an optional string
Truthy(s) == s # None /\ s # ""

\* int(s): the strings that parse
IntTexts == {"0", "256"}

\* The factory's configuration.
supported_format ==
    <<"image/png", "image/jpeg", "image/jpg", "image/webp", "image/jp2",
      "image/tiff; application=geotiff">>

supported_wmts_version == <<"1.0.0">>

supported_wms_version == <<"1.0.0", "1.1.1", "1.3.0">>

supported_tms == {"WebMercatorQuad", "WGS1984Quad"}

\* The registry get_layer_from_collections builds from the catalog: one
\* layer whose collection lists its dates and one without a time list
\* (layer.get("time") is None).
LayerRegistry ==
    [id \in {"c1_visual", "c2_visual"} |->
        IF id = "c1_visual"
        THEN [id |-> id, collection |-> "c1", style |-> "default",
              has_time |-> TRUE,
              time |-> <<"2023-01-05", "2023-12-31", "2024-02-29">>]
        ELSE [id |-> id, collection |-> "c2", style |-> "default",
              has_time |-> FALSE, time |-> << >>]]

\* `layer_time and ...`: None and the empty list are false
HasTimes(layer) == layer.has_time /\ Len(layer.time) > 0

(***************************************************************************)
(* Dates.  strptime(s, "%Y-%m-%d") reads a date, padded or not; a datetime *)
(* is a day number of the proleptic Gregorian calendar and the             *)
(* milliseconds into the day; strftime writes the padded text.             *)
(***************************************************************************)
DateTexts ==
    { <<"2023-01-05", <<2023, 1, 5>>>>, <<"2023-01-06", <<2023, 1, 6>>>>,
      <<"2023-01-07", <<2023, 1, 7>>>>, <<"2023-12-31", <<2023, 12, 31>>>>,
      <<"2024-01-01", <<2024, 1, 1>>>>, <<"2024-02-29", <<2024, 2, 29>>>>,
      <<"2024-03-01", <<2024, 3, 1>>>> }

\* what strptime also reads, and what it stands for
LooseDateTexts == { <<"2023-1-5", <<2023, 1, 5>>>> }

CanParseDate(s) == \E p \in DateTexts \cup LooseDateTexts : p[1] = s

MsPerDay == 24 * 60 * 60 * 1000

DaysFromCivil(y, m, d) ==
    LET yy  == IF m <= 2 THEN y - 1 ELSE y
        era == yy \div 400
        yoe == yy - era * 400
        mp  == IF m > 2 THEN m - 3 ELSE m + 9
        doy == (153 * mp + 2) \div 5 + d - 1
        doe == yoe * 365 + yoe \div 4 - yoe \div 100 + doy
    IN era * 146097 + doe - 719468

CivilFromDays(n) ==
    LET z   == n + 719468
        era == z \div 146097
        doe == z - era * 146097
        yoe == (doe - doe \div 1460 + doe \div 36524 - doe \div 146096) \div 365
        doy == doe - (365 * yoe + yoe \div 4 - yoe \div 100)
        mp  == (5 * doy + 2) \div 153
        d   == doy - (153 * mp + 2) \div 5 + 1
        m   == IF mp < 10 THEN mp + 3 ELSE mp - 9
        y   == yoe + era * 400
    IN <<IF m <= 2 THEN y + 1 ELSE y, m, d>>

strptime(s) ==
    LET c == (CHOOSE p \in DateTexts \cup LooseDateTexts : p[1] = s)[2]
    IN [day |-> DaysFromCivil(c[1], c[2], c[3]), ms |-> 0]

\* datetime + timedelta(days, milliseconds)
plus_timedelta(dt, days, ms) ==
    LET t == dt.ms + ms
    IN [day |-> dt.day + days + (t \div MsPerDay), ms |-> t % MsPerDay]

\* strftime('%Y-%m-%dT%H:%M:%SZ'): the fraction of the second is dropped
strftime(dt) ==
    LET c == CivilFromDays(dt.day)
        s == dt.ms \div 1000
    IN [date |-> IF \E p \in DateTexts : p[2] = c
                 THEN (CHOOSE p \in DateTexts : p[2] = c)[1]
                 ELSE "other",
        hh |-> s \div 3600, mm |-> (s % 3600) \div 60, ss |-> s % 60]

\* the same derivation with the millisecond left on the next day
time_window_to_next_day(req_time) ==
    LET start_datetime == strptime(req_time)
        end_datetime   == plus_timedelta(start_datetime, 1, 0)
    IN <<strftime(start_datetime), strftime(end_datetime)>>

\* f"{start_datetime.strftime(...)}/{end_datetime.strftime(...)}"
time_window(req_time) ==
    LET start_datetime == strptime(req_time)
        end_datetime   ==
            plus_timedelta(plus_timedelta(start_datetime, 1, 0), 0, -1)
    IN <<strftime(start_datetime), strftime(end_datetime)>>

(***************************************************************************)
(* Responses.                                                              *)
(***************************************************************************)
\* raise HTTPException(status_code=..., detail=f"...")
HTTPException(status, msg, v, effects) ==
    [Reply(status, "detail", effects) EXCEPT !.msg = msg, !.v = v]

\* an exception no handler of the code catches: the application's handler
\* for Exception answers 500
Unhandled(exc, effects) ==
    [Reply(500, "detail", effects) EXCEPT !.msg = exc]

\* The factory is set up as main.py does with settings.debug:
\* optional_headers = [OptionalHeader.server_timing, OptionalHeader.x_assets]
optional_headers == {"server_timing", "x_assets"}

\* The image a mosaic returns: it has bounds, a CRS that CRS_to_uri
\* resolves, and the timings STACAPIBackend.tile records in its metadata.
Image ==
    [bounds |-> <<"-180.0", "-85.0", "180.0", "85.0">>, has_bounds |-> TRUE,
     crs_uri |-> "http://www.opengis.net/def/crs/EPSG/0/3857",
     timings |-> <<"search", "mosaicking">>]

\* headers: Dict[str, str] = {} and the entries the image handlers add to it
image_headers(image) ==
    (IF image.has_bounds THEN {"Content-Bbox"} ELSE {})
    \cup (IF Truthy(image.crs_uri) THEN {"Content-Crs"} ELSE {})
    \cup (IF "server_timing" \in optional_headers /\ Len(image.timings) > 0
          THEN {"Server-Timing"} ELSE {})

\* Response(content, media_type=media_type): the headers Starlette gives a
\* response that was passed none
Response(content, media_type) == {"content-length", "content-type"}

\* The mosaic backend as the gateway calls it: it is given the search and
\* either returns the image or raises.  The handler renders the image,
\* fills `headers` from it and returns Response(content, media_type=...).
BackendOutcomes == {"image", "Exception"}

backend(search_query, out, effects) ==
    LET headers == image_headers(Image) IN
    [Reply(IF out = "image" THEN 200 ELSE 500,
           IF out = "image" THEN "image" ELSE "detail",
           Append(effects, "backend"))
       EXCEPT !.msg = IF out = "image" THEN "" ELSE out,
              !.searched = TRUE, !.search = search_query,
              !.headers = IF out = "image"
                          THEN Response("image", "media_type") ELSE {}]

(***************************************************************************)
(* OGCEndpointsFactory.get_tile                                            *)
(***************************************************************************)
\* get_tile with the tile-matrix-set looked at before TIME
get_tile_tms_first(req, layer, out, effects) ==
    LET req_time == Get(req, "time", None)
        tms_id   == req["tilematrixset"]
    IN
    IF tms_id \notin supported_tms
    THEN HTTPException(400,
             "Invalid 'TILEMATRIXSET' parameter: {tms_id}. Should be one of {self.supported_tms.list()}.",
             <<tms_id>>, effects)
    ELSE IF HasTimes(layer) /\ ~Has(req, "time")
    THEN HTTPException(400, "Missing 'TIME' parameters for layer {layer['id']}",
                       <<layer.id>>, effects)
    ELSE IF HasTimes(layer) /\ req_time \notin Range(layer.time)
    THEN HTTPException(400, "Invalid 'TIME' parameter: {req_time}. Not available.",
                       <<req_time>>, effects)
    ELSE IF \E k \in {"tilematrix", "tilecol", "tilerow"} : req[k] \notin IntTexts
    THEN Unhandled("ValueError", effects)
    ELSE IF Truthy(req_time) /\ ~CanParseDate(req_time)
    THEN Unhandled("ValueError", effects)
    ELSE backend([collections |-> <<layer.collection>>,
                  datetime |-> IF Truthy(req_time)
                               THEN time_window(req_time) ELSE << >>],
                 out, effects)

get_tile(req, layer, out, effects) ==
    LET req_time == Get(req, "time", None)
        tms_id   == req["tilematrixset"]
    IN
    IF HasTimes(layer) /\ ~Has(req, "time")
    THEN HTTPException(400, "Missing 'TIME' parameters for layer {layer['id']}",
                       <<layer.id>>, effects)
    ELSE IF HasTimes(layer) /\ req_time \notin Range(layer.time)
    THEN HTTPException(400, "Invalid 'TIME' parameter: {req_time}. Not available.",
                       <<req_time>>, effects)
    ELSE IF tms_id \notin supported_tms
    THEN HTTPException(400,
             "Invalid 'TILEMATRIXSET' parameter: {tms_id}. Should be one of {self.supported_tms.list()}.",
             <<tms_id>>, effects)
    ELSE IF \E k \in {"tilematrix", "tilecol", "tilerow"} : req[k] \notin IntTexts
    THEN Unhandled("ValueError", effects)
    ELSE IF Truthy(req_time) /\ ~CanParseDate(req_time)
    THEN Unhandled("ValueError", effects)
    ELSE backend([collections |-> <<layer.collection>>,
                  datetime |-> IF Truthy(req_time)
                               THEN time_window(req_time) ELSE << >>],
                 out, effects)

(***************************************************************************)
(* web_map_tile_service: GET /wmts                                         *)
(***************************************************************************)
\* not service.lower() == "wmts" with any service taken for the endpoint's
service_is_any(service, name) == Lower(service) \in {"wmts", "wms"}

\* service.lower() == "wmts" (resp. "wms")
service_is(service, name) == Lower(service) = name

\* the required keys of GetTile without the key that has a default
GetTileKeys_defaulted ==
    {"service", "request", "layer", "style", "format", "tilematrixset",
     "tilematrix", "tilerow", "tilecol"}

GetTileKeys ==
    {"service", "request", "version", "layer", "style", "format",
     "tilematrixset", "tilematrix", "tilerow", "tilecol"}

GetFeatureInfoKeys ==
    {"service", "request", "version", "layer", "style", "tilematrixset",
     "tilematrix", "tilerow", "tilecol", "i", "j", "infoformat"}

\* the checks GetTile and GetFeatureInfo share after their own first one
LayerStyleTile(req, layers, out, effects) ==
    IF req["layer"] \notin DOMAIN layers
    THEN HTTPException(400,
             "Invalid 'LAYER' parameter: {req['layer']}. Should be one of {list(layers)}.",
             <<req["layer"]>>, effects)
    ELSE LET layer     == layers[req["layer"]]
             style     == Lower(layer.style)
             req_style == IF Truthy(Get(req, "style", None))
                          THEN req["style"] ELSE "default"
         IN IF req_style # style
            THEN HTTPException(400,
                     "Invalid STYLE parameters {req_style} for layer {layer['id']}",
                     <<req_style, layer.id>>, effects)
            ELSE get_tile(req, layer, out, effects)

WmtsGetTile(req, request_type, layers, out, effects) ==
    LET missing_keys == GetTileKeys \ DOMAIN req IN
    IF missing_keys # {}
    THEN [HTTPException(400, "Missing '{request_type}' parameters: {missing_keys}",
                        <<request_type>>, effects) EXCEPT !.keys = missing_keys]
    ELSE IF req["format"] \notin Range(supported_format)
    THEN [HTTPException(400,
              "Invalid 'FORMAT' parameter: {req['format']}. Should be one of {self.supported_format}.",
              <<req["format"]>>, effects) EXCEPT !.list = supported_format]
    ELSE LayerStyleTile(req, layers, out, effects)

WmtsGetFeatureInfo(req, request_type, layers, out, effects) ==
    LET missing_keys == GetFeatureInfoKeys \ DOMAIN req IN
    IF missing_keys # {}
    THEN [HTTPException(400, "Missing '{request_type}' parameters: {missing_keys}",
                        <<request_type>>, effects) EXCEPT !.keys = missing_keys]
    ELSE IF req["infoformat"] # "application/geo+json"
    THEN HTTPException(400,
             "Invalid 'InfoFormat' parameter: {req['infoformat']}. Should be 'application/geo+json'.",
             <<req["infoformat"]>>, effects)
    ELSE LET tile == LayerStyleTile(req, layers, out, effects) IN
         IF tile.body # "image" THEN tile
         ELSE IF req["i"] \notin IntTexts \/ req["j"] \notin IntTexts
         THEN [tile EXCEPT !.status = 500, !.body = "detail",
                           !.msg = "ValueError"]
         ELSE [tile EXCEPT !.body = "geojson"]

web_map_tile_service(query_params, out) ==
    LET req          == LowerKeys(query_params)
        service      == Get(req, "service", None)
        version      == Get(req, "version", "1.0.0")
        request_type == Get(req, "request", None)
    IN
    IF service = None
    THEN HTTPException(400, "Missing WMTS 'SERVICE' parameter.", << >>, << >>)
    ELSE IF ~service_is(service, "wmts")
    THEN HTTPException(400,
             "Invalid 'SERVICE' parameter: {service}. Only 'wmts' is accepted",
             <<service>>, << >>)
    ELSE IF version \notin Range(supported_wmts_version)
    THEN \* the detail reads self.supported_version, which the factory
         \* does not have
         Unhandled("AttributeError", << >>)
    ELSE IF ~Truthy(request_type)
    THEN HTTPException(400, "Missing WMTS 'REQUEST' parameter.", << >>, << >>)
    ELSE LET layers  == LayerRegistry
             effects == <<"get_layer_from_collections">>
         IN
         IF Lower(request_type) = "getcapabilities"
         THEN [Reply(200, "xml", effects) EXCEPT !.version = version]
         ELSE IF Lower(request_type) = "gettile"
         THEN WmtsGetTile(req, request_type, layers, out, effects)
         ELSE IF Lower(request_type) = "getfeatureinfo"
         THEN WmtsGetFeatureInfo(req, request_type, layers, out, effects)
         ELSE HTTPException(400,
                  "Invalid 'REQUEST' parameter: {request_type}. Should be one of ['GetCapabilities', 'GetTile', 'GetFeatureInfo'].",
                  <<request_type>>, effects)

(***************************************************************************)
(* WMTS_getTile: GET /layers/{LAYER}/{STYLE}/{TIME}/{TileMatrixSet}/       *)
(*                   {TileMatrix}/{TileCol}/{TileRow}.{FORMAT}             *)
(*                                                                         *)
(* The request is its path parameters; its query string carries the        *)
(* rendering options layer_dependency asks for.                            *)
(***************************************************************************)
\* titiler.core.resources.enums.ImageType, the type of the FORMAT segment
ImageType == {"png", "npy", "tif", "jpeg", "jpg", "jp2", "webp", "pngraw"}

\* a path parameter that does not validate against its annotation: the
\* framework answers 422 before the handler is entered
RequestValidationError(loc) ==
    [Reply(422, "detail", << >>) EXCEPT !.msg = "RequestValidationError",
                                        !.keys = loc]

WMTS_getTile(path, out) ==
    LET collectionId == path["layer"]
        timeId       == path["time"]
        invalid      ==
            {k \in {"style"} : path[k] # "default"}
            \cup {k \in {"tilematrixset"} : path[k] \notin supported_tms}
            \cup {k \in {"tilematrix", "tilecol", "tilerow"} :
                      path[k] \notin IntTexts}
            \cup {k \in {"format"} : path[k] \notin ImageType}
    IN
    IF invalid # {}
    THEN RequestValidationError(invalid)
    ELSE \* search_query = {"collections": [collectionId], "datetime": timeId}
         backend([collections |-> <<collectionId>>, datetime |-> <<timeId>>],
                 out, << >>)

(***************************************************************************)
(* web_map_service: GET /wms                                               *)
(***************************************************************************)
web_map_service(query_params, out) ==
    LET req          == LowerKeys(query_params)
        service      == Get(req, "service", None)
        version      == Get(req, "version", "1.3.0")
        request_type == Get(req, "request", None)
    IN
    IF service = None
    THEN HTTPException(400, "Missing WMS 'SERVICE' parameter.", << >>, << >>)
    ELSE IF ~service_is(service, "wms")
    THEN HTTPException(400,
             "Invalid 'SERVICE' parameter: {req['service']}. Only 'wms' is accepted",
             <<service>>, << >>)
    ELSE IF version \notin Range(supported_wms_version)
    THEN [HTTPException(400,
              "Invalid 'VERSION' parameter: {version}. Allowed versions include: {self.supported_wms_version}",
              <<version>>, << >>) EXCEPT !.list = supported_wms_version]
    ELSE IF ~Truthy(request_type)
    THEN HTTPException(400, "Missing WMS 'REQUEST' parameter.", << >>, << >>)
    ELSE \* layers = get_layer_from_collections(backend_params.api_params):
         \* the wrapper of `cached` first calls the key function with the
         \* arguments of the call, key(api_params); the key function is
         \* lambda api_params, supported_tms and has no default for the
         \* second, so the call raises TypeError before the registry is
         \* looked up or built, and the handler ends here.
         Unhandled("TypeError", << >>)

(***************************************************************************)
(* OGCEndpointsFactory.get_map_data, and the GetMap and GetFeatureInfo     *)
(* branches of web_map_service that call it with a layer of the registry.  *)
(***************************************************************************)
\* CRS.from_user_input: the texts it reads and the CRS each stands for; any
\* other text raises CRSError.  Two CRS are equal when they are the same
\* definition: CRS:84 (longitude, latitude) is not EPSG:4326.
CrsTexts ==
    { <<"EPSG:4326", "EPSG:4326">>, <<"CRS:84", "OGC:CRS84">>,
      <<"EPSG:3857", "EPSG:3857">> }

CanParseCrs(s) == \E p \in CrsTexts : p[1] = s

from_user_input(s) == (CHOOSE p \in CrsTexts : p[1] = s)[2]

\* str.split(",")
SplitTexts ==
    { <<"1,2,3,4", <<"1", "2", "3", "4">>>>, <<"1,2,3", <<"1", "2", "3">>>>,
      <<"1,2,3,x", <<"1", "2", "3", "x">>>> }

split(s) == (CHOOSE p \in SplitTexts : p[1] = s)[2]

\* float(s): the texts it reads; any other raises ValueError
FloatTexts == { <<"1", 1>>, <<"2", 2>>, <<"3", 3>>, <<"4", 4>> }

CanFloat(t) == \E p \in FloatTexts : p[1] = t

float(t) == (CHOOSE p \in FloatTexts : p[1] = t)[2]

\* the same step with the ordinates of EPSG:4326 swapped under any version
axis_order_any_version(version, crs, bbox) ==
    IF crs = "EPSG:4326"
    THEN [bbox |-> <<bbox[2], bbox[1], bbox[4], bbox[3]>>, crs |-> crs]
    ELSE IF version = "1.3.0" /\ crs = from_user_input("CRS:84")
    THEN [bbox |-> bbox, crs |-> "EPSG:4326"]
    ELSE [bbox |-> bbox, crs |-> crs]

\* if version == "1.3.0": the ordinates of EPSG:4326 are swapped, CRS:84 is
\* overwritten with EPSG:4326
axis_order(version, crs, bbox) ==
    IF version = "1.3.0" /\ crs = "EPSG:4326"
    THEN [bbox |-> <<bbox[2], bbox[1], bbox[4], bbox[3]>>, crs |-> crs]
    ELSE IF version = "1.3.0" /\ crs = from_user_input("CRS:84")
    THEN [bbox |-> bbox, crs |-> "EPSG:4326"]
    ELSE [bbox |-> bbox, crs |-> crs]

\* with self.backend(search_query, ...) as src_dst: src_dst.part(bbox,
\* bounds_crs=crs, ...): STACAPIBackend.part raises NotImplementedError
part(search_query, bbox, crs, effects) ==
    [Unhandled("NotImplementedError", Append(effects, "part"))
       EXCEPT !.searched = TRUE, !.search = search_query,
              !.bbox = bbox, !.crs = crs]

get_map_data(req, req_keys, request_type, layer, version, effects) ==
    LET missing_keys == req_keys \ DOMAIN req
        crs_value    == Get(req, "crs", Get(req, "srs", None))
        req_time     == Get(req, "time", None)
    IN
    IF missing_keys # {}
    THEN [HTTPException(400, "Missing '{request_type}' parameters: {missing_keys}",
                        <<request_type>>, effects) EXCEPT !.keys = missing_keys]
    ELSE IF DOMAIN req \cap {"crs", "srs"} = {}
    THEN HTTPException(400, "Missing 'CRS' or 'SRS parameters.", << >>, effects)
    ELSE IF ~Truthy(crs_value)
    THEN HTTPException(400, "Invalid 'CRS' parameter.", << >>, effects)
    ELSE IF ~CanParseCrs(crs_value)
    THEN Unhandled("CRSError", effects)
    ELSE IF ~Has(req, "bbox")
    THEN Unhandled("KeyError", effects)
    ELSE IF \E i \in DOMAIN split(req["bbox"]) : ~CanFloat(split(req["bbox"])[i])
    THEN Unhandled("ValueError", effects)
    ELSE IF Len(split(req["bbox"])) # 4
    THEN HTTPException(400,
             "Invalid 'BBOX' parameters: {req['bbox']}. Needs 4 coordinates separated by commas",
             <<req["bbox"]>>, effects)
    ELSE IF ~Has(req, "height") \/ ~Has(req, "width")
    THEN Unhandled("KeyError", effects)
    ELSE IF req["height"] \notin IntTexts \/ req["width"] \notin IntTexts
    THEN Unhandled("ValueError", effects)
    ELSE IF HasTimes(layer) /\ ~Has(req, "time")
    THEN HTTPException(400, "Missing 'TIME' parameters for layer {layer['id']}",
                       <<layer.id>>, effects)
    ELSE IF HasTimes(layer) /\ req_time \notin Range(layer.time)
    THEN HTTPException(400, "Invalid 'TIME' parameter: {req_time}. Not available.",
                       <<req_time>>, effects)
    ELSE IF Truthy(req_time) /\ ~CanParseDate(req_time)
    THEN Unhandled("ValueError", effects)
    ELSE LET bbox == [i \in 1..4 |-> float(split(req["bbox"])[i])]
             axes == axis_order(version, from_user_input(crs_value), bbox)
         IN part([collections |-> <<layer.collection>>,
                  datetime |-> IF Truthy(req_time)
                               THEN time_window(req_time) ELSE << >>],
                 axes.bbox, axes.crs, effects)

\* the layer lookup GetMap and GetFeatureInfo start with; its detail reads
\* req['layer']
WmsLayer(req, layers, effects) ==
    IF ~Has(req, "layers")
    THEN Unhandled("KeyError", effects)
    ELSE IF req["layers"] \in DOMAIN layers
    THEN Reply(200, "layer", effects)
    ELSE IF ~Has(req, "layer")
    THEN Unhandled("KeyError", effects)
    ELSE HTTPException(400,
             "Invalid 'LAYER' parameter: {req['layer']}. Should be one of {list(layers)}.",
             <<req["layer"]>>, effects)

GetMapKeys == {"layers", "bbox", "width", "height", "format"}

WmsGetMap(req, request_type, version, layers, effects) ==
    LET found == WmsLayer(req, layers, effects) IN
    IF found.body # "layer" THEN found
    ELSE LET image == get_map_data(req, GetMapKeys, request_type,
                                   layers[req["layers"]], version, effects)
             transparent == Get(req, "transparent", "")
         IN
         IF image.body # "image" THEN image
         ELSE IF Truthy(transparent) /\ Lower(transparent) \notin {"true", "false"}
         THEN HTTPException(400,
                  "Invalid 'TRANSPARENT' parameter: {transparent}. Should be one of ['FALSE', 'TRUE'].",
                  <<transparent>>, image.effects)
         ELSE IF req["format"] \notin Range(supported_format)
         THEN [HTTPException(400,
                   "Invalid 'FORMAT' parameter: {format}. Should be one of {self.supported_format}.",
                   <<req["format"]>>, image.effects)
                 EXCEPT !.list = supported_format]
         ELSE [image EXCEPT !.headers = Response("image", "media_type")]

WmsFeatureInfoKeys ==
    {"version", "request", "layers", "width", "height", "query_layers",
     "i", "j"}

WmsGetFeatureInfo(req, request_type, version, layers, effects) ==
    LET found == WmsLayer(req, layers, effects) IN
    IF found.body # "layer" THEN found
    ELSE LET image == get_map_data(req, WmsFeatureInfoKeys, request_type,
                                   layers[req["layers"]], version, effects)
         IN
         IF image.body # "image" THEN image
         ELSE IF req["i"] \notin IntTexts \/ req["j"] \notin IntTexts
         THEN Unhandled("ValueError", image.effects)
         ELSE [image EXCEPT !.body = "html",
                            !.headers = Response("html", "text/plain")]

\* the branches of web_map_service on request_type, past its registry
\* lookup
WmsBranches(req, layers) ==
    LET version      == Get(req, "version", "1.3.0")
        request_type == req["request"]
        effects      == <<"get_layer_from_collections">>
    IN
    IF Lower(request_type) = "getmap"
    THEN WmsGetMap(req, request_type, version, layers, effects)
    ELSE IF Lower(request_type) = "getfeatureinfo"
    THEN WmsGetFeatureInfo(req, request_type, version, layers, effects)
    ELSE HTTPException(400,
             "Invalid 'REQUEST' parameter: {request_type}. Should be one of ['GetCapabilities', 'GetMap'].",
             <<request_type>>, effects)

(***************************************************************************)
(* The requests.                                                           *)
(***************************************************************************)
Endpoints == {"wmts", "wms"}

WmtsTile(layer) ==
    [k \in {"service", "request", "version", "layer", "style", "format",
            "tilematrixset", "tilematrix", "tilerow", "tilecol"} |->
        CASE k = "service"       -> "WMTS"
          [] k = "request"       -> "GetTile"
          [] k = "version"       -> "1.0.0"
          [] k = "layer"         -> layer
          [] k = "style"         -> "default"
          [] k = "format"        -> "image/png"
          [] k = "tilematrixset" -> "WebMercatorQuad"
          [] OTHER               -> "0"]

WmtsFeatureInfo(layer) ==
    [k \in {"service", "request", "version", "layer", "style",
            "tilematrixset", "tilematrix", "tilerow", "tilecol", "i", "j",
            "infoformat"} |->
        CASE k = "request"    -> "GetFeatureInfo"
          [] k = "infoformat" -> "application/geo+json"
          [] k \in {"i", "j"} -> "0"
          [] OTHER            -> WmtsTile(layer)[k]]

Capabilities(service) ==
    [k \in {"service", "request"} |->
        IF k = "service" THEN service ELSE "GetCapabilities"]

WmsMap(layer) ==
    [k \in {"service", "version", "request", "layers", "styles", "crs",
            "bbox", "width", "height", "format"} |->
        CASE k = "service" -> "WMS"
          [] k = "version" -> "1.3.0"
          [] k = "request" -> "GetMap"
          [] k = "layers"  -> layer
          [] k = "styles"  -> ""
          [] k = "crs"     -> "EPSG:4326"
          [] k = "bbox"    -> "1,2,3,4"
          [] k = "format"  -> "image/png"
          [] OTHER         -> "256"]

WmsFeatureInfo(layer) ==
    [k \in {"service", "version", "request", "layers", "query_layers",
            "crs", "bbox", "width", "height", "i", "j"} |->
        CASE k = "request"      -> "GetFeatureInfo"
          [] k = "query_layers" -> layer
          [] k \in {"i", "j"}   -> "0"
          [] OTHER              -> WmsMap(layer)[k]]

\* the path parameters of a REST tile request
RestKeys ==
    {"layer", "style", "time", "tilematrixset", "tilematrix", "tilecol",
     "tilerow", "format"}

RestTile(layer, time) ==
    [k \in RestKeys |->
        CASE k = "time"   -> time
          [] k = "format" -> "png"
          [] OTHER        -> WmtsTile(layer)[k]]

\* query @@ (k :> v)
With(q, k, v) == [x \in DOMAIN q \cup {k} |-> IF x = k THEN v ELSE q[x]]

BaseRequests ==
    { [endpoint |-> "wmts", query |-> With(WmtsTile("c1_visual"), "time", "2023-01-05")],
      [endpoint |-> "wmts", query |-> WmtsTile("c2_visual")],
      [endpoint |-> "wmts", query |-> With(WmtsFeatureInfo("c1_visual"), "time", "2023-12-31")],
      [endpoint |-> "wmts", query |-> Capabilities("WMTS")],
      [endpoint |-> "wms", query |-> With(WmsMap("c1_visual"), "time", "2023-01-05")],
      [endpoint |-> "wms", query |-> With(WmsFeatureInfo("c1_visual"), "time", "2023-01-05")],
      [endpoint |-> "wms", query |-> Capabilities("WMS")] }

EndpointKeys(e) ==
    IF e = "wmts"
    THEN GetTileKeys \cup GetFeatureInfoKeys \cup {"time"}
    ELSE {"service", "version", "request", "layers", "time"}

ParamValues(k) ==
    CASE k = "service"  -> {"WMTS", "wmts", "WMS", "ows"}
      [] k = "version"  -> {"1.0.0", "1.3.0", "2.0.0"}
      [] k = "request"  -> {"GetTile", "gettile", "GetFeatureInfo",
                            "GetCapabilities", "GetMap", "Bogus", ""}
      [] k \in {"layer", "layers"} -> {"c1_visual", "c2_visual", "nope"}
      [] k = "style"    -> {"default", "", "fancy"}
      [] k = "format"   -> {"image/png", "image/bmp"}
      [] k = "tilematrixset" -> {"WebMercatorQuad", "Bogus"}
      [] k = "infoformat" -> {"application/geo+json", "text/html"}
      [] k = "time"     -> {"2023-01-05", "2023-12-31", "2024-02-29",
                            "2023-01-06", "2023-1-5", "", "yesterday"}
      [] OTHER          -> {"0", "zz"}

\* the spellings a parameter name is sent in
RawNames(k) == {k} \cup {p[1] : p \in {q \in LowerPairs : q[2] = k}}

\* a path has one segment per parameter, and no segment is empty
PathValues(k) ==
    CASE k = "format" -> {"png", "bmp"}
      [] OTHER        -> ParamValues(k) \ {""}

CoreAtRest ==
    /\ cfg = CacheSettings([ttl |-> MaxTtl, maxsize |-> MaxSize, disable |-> FALSE])
    /\ now = 0
    /\ caches = [op \in Ops |-> << >>]
    /\ thr = [t \in Threads |-> Idle]
    /\ nsearch = [k \in OpKeys |-> 0]
    /\ called = {}
    /\ ncalls = 0
    /\ firstCall = -1
    /\ scene = [callers |-> {}, calls |-> {}, budget |-> 0]

CacheAtRest ==
    /\ CoreAtRest
    /\ AtRest

InitOGC ==
    /\ CacheAtRest
    /\ \E b \in BaseRequests : endpoint = b.endpoint /\ raw = b.query
    /\ edits = 0
    /\ resp = NoResponse

\* the client sets a parameter of the request it is composing
SetParam(k, n, v) ==
    /\ ~Answered /\ edits < MaxEdits
    /\ k \in EndpointKeys(endpoint) /\ n \in RawNames(k) /\ v \in ParamValues(k)
    /\ raw' = With([x \in DOMAIN raw \ RawNames(k) |-> raw[x]], n, v)
    /\ raw' # raw
    /\ edits' = edits + 1
    /\ UNCHANGED <<endpoint, resp>>
    /\ UNCHANGED cacheVars

\* the client leaves a parameter out
DropParam(n) ==
    /\ ~Answered /\ edits < MaxEdits
    /\ n \in DOMAIN raw
    /\ raw' = [x \in DOMAIN raw \ {n} |-> raw[x]]
    /\ edits' = edits + 1
    /\ UNCHANGED <<endpoint, resp>>
    /\ UNCHANGED cacheVars

\* the endpoint handles the request
Handle(out) ==
    /\ ~Answered
    /\ resp' = IF endpoint = "wmts"
               THEN web_map_tile_service(raw, out)
               ELSE web_map_service(raw, out)
    /\ UNCHANGED <<endpoint, raw, edits>>
    /\ UNCHANGED cacheVars

NextOGC ==
    \/ \E k \in EndpointKeys(endpoint) :
          \E n \in RawNames(k), v \in ParamValues(k) : SetParam(k, n, v)
    \/ \E n \in DOMAIN raw : DropParam(n)
    \/ \E out \in BackendOutcomes : Handle(out)

SpecOGC == InitOGC /\ [][NextOGC]_vars

(***************************************************************************)
(* One request to /wmts or /wms in the spellings a client may send it in:  *)
(* request.query_params keeps the parameter names and the values as sent.  *)
(***************************************************************************)
\* a request of the endpoints, complete, or with one parameter left out or
\* given another value
SpelledQueries(q) ==
    {q} \cup { [x \in DOMAIN q \ {k} |-> q[x]] : k \in DOMAIN q }
        \cup UNION { { With(q, k, v) : v \in ParamValues(k) } :
                        k \in {"service", "request", "version"} }

SpelledRequests ==
    UNION { { [endpoint |-> b.endpoint, query |-> q] :
                 q \in SpelledQueries(b.query) } : b \in BaseRequests }

\* the spellings a value of REQUEST or SERVICE is sent in
RawValues(v) == {p[1] : p \in {q \in LowerPairs : q[2] = Lower(v)}} \cup {Lower(v)}

InitSpelling ==
    /\ CacheAtRest
    /\ \E b \in SpelledRequests : endpoint = b.endpoint /\ raw = b.query
    /\ edits = 0
    /\ resp = NoResponse

\* the client spells the name of a parameter in another letter case
SpellName(n, m) ==
    /\ ~Answered /\ edits < MaxEdits
    /\ n \in DOMAIN raw /\ m \in RawNames(Lower(n)) \ {n}
    /\ raw' = With([x \in DOMAIN raw \ {n} |-> raw[x]], m, raw[n])
    /\ edits' = edits + 1
    /\ UNCHANGED <<endpoint, resp>>
    /\ UNCHANGED cacheVars

\* the client spells the value of REQUEST or SERVICE in another letter case
SpellValue(n, v) ==
    /\ ~Answered /\ edits < MaxEdits
    /\ n \in DOMAIN raw /\ Lower(n) \in {"request", "service"}
    /\ v \in RawValues(raw[n]) \ {raw[n]}
    /\ raw' = [raw EXCEPT ![n] = v]
    /\ edits' = edits + 1
    /\ UNCHANGED <<endpoint, resp>>
    /\ UNCHANGED cacheVars

NextSpelling ==
    \/ \E n \in DOMAIN raw : \E m \in RawNames(Lower(n)) : SpellName(n, m)
    \/ \E n \in DOMAIN raw : \E v \in RawValues(raw[n]) : SpellValue(n, v)
    \/ \E out \in BackendOutcomes : Handle(out)

SpecSpelling == InitSpelling /\ [][NextSpelling]_vars

(***************************************************************************)
(* One request to the REST tile route.                                     *)
(***************************************************************************)
RestRequests ==
    { RestTile("c1_visual", "2023-01-05"), RestTile("c2_visual", "2023-01-05") }

InitREST ==
    /\ CacheAtRest
    /\ endpoint = "rest"
    /\ raw \in RestRequests
    /\ edits = 0
    /\ resp = NoResponse

\* the client writes another value into a segment of the path
SetPath(k, v) ==
    /\ ~Answered /\ edits < MaxEdits
    /\ k \in RestKeys /\ v \in PathValues(k)
    /\ raw' = [raw EXCEPT ![k] = v]
    /\ raw' # raw
    /\ edits' = edits + 1
    /\ UNCHANGED <<endpoint, resp>>
    /\ UNCHANGED cacheVars

\* the route handles the request
HandlePath(out) ==
    /\ ~Answered
    /\ resp' = WMTS_getTile(raw, out)
    /\ UNCHANGED <<endpoint, raw, edits>>
    /\ UNCHANGED cacheVars

NextREST ==
    \/ \E k \in RestKeys : \E v \in PathValues(k) : SetPath(k, v)
    \/ \E out \in BackendOutcomes : HandlePath(out)

SpecREST == InitREST /\ [][NextREST]_vars

(***************************************************************************)
(* One GetMap or GetFeatureInfo request in the branches of web_map_service *)
(* that follow the registry lookup, entered with the registry: the request *)
(* is the lower-cased dict `req` of the handler.                           *)
(***************************************************************************)
MapKeys ==
    {"version", "layers", "layer", "styles", "crs", "srs", "bbox", "width",
     "height", "format", "time"}

MapValues(k) ==
    CASE k = "version" -> {"1.0.0", "1.1.1", "1.3.0"}
      [] k = "layers"  -> {"c1_visual", "c2_visual", "nope"}
      [] k = "layer"   -> {"nope"}
      [] k = "styles"  -> {"", "default", "fancy"}
      [] k \in {"crs", "srs"} -> {"EPSG:4326", "CRS:84", "EPSG:3857", "",
                                  "EPSG:3857dasdas"}
      [] k = "bbox"    -> {"1,2,3,4", "1,2,3", "1,2,3,x"}
      [] k = "format"  -> {"image/png", "image/bmp"}
      [] k = "time"    -> {"2023-01-05", "2023-01-06"}
      [] OTHER         -> {"256", "zz"}

MapRequests ==
    { With(WmsMap("c1_visual"), "time", "2023-01-05"),
      With(WmsFeatureInfo("c1_visual"), "time", "2023-01-05") }

InitMap ==
    /\ CacheAtRest
    /\ endpoint = "wms"
    /\ raw \in MapRequests
    /\ edits = 0
    /\ resp = NoResponse

\* the request carries another value for a parameter
SetKey(k, v) ==
    /\ ~Answered /\ edits < MaxEdits
    /\ k \in MapKeys /\ v \in MapValues(k)
    /\ raw' = With(raw, k, v)
    /\ raw' # raw
    /\ edits' = edits + 1
    /\ UNCHANGED <<endpoint, resp>>
    /\ UNCHANGED cacheVars

\* the request lacks a parameter
DropKey(k) ==
    /\ ~Answered /\ edits < MaxEdits
    /\ k \in DOMAIN raw \ {"service", "request"}
    /\ raw' = [x \in DOMAIN raw \ {k} |-> raw[x]]
    /\ edits' = edits + 1
    /\ UNCHANGED <<endpoint, resp>>
    /\ UNCHANGED cacheVars

\* the branch of the request handles it
HandleMap ==
    /\ ~Answered
    /\ resp' = WmsBranches(raw, LayerRegistry)
    /\ UNCHANGED <<endpoint, raw, edits>>
    /\ UNCHANGED cacheVars

NextMap ==
    \/ \E k \in MapKeys : \E v \in MapValues(k) : SetKey(k, v)
    \/ \E k \in DOMAIN raw : DropKey(k)
    \/ HandleMap

SpecMap == InitMap /\ [][NextMap]_vars

(***************************************************************************)
(* STACAPIBackend.tile: the mosaic of the items a search returns for a     *)
(* tile.                                                                   *)
(***************************************************************************)
\* the items of the catalog
Items == 1..MaxItems

\* the tile indices
TileRange == 0..MaxTile

\* what assets_for_tile returns: the items found, each once, in the order
\* of the search
Found ==
    UNION { { s \in [1..n -> Items] :
                 \A i, j \in 1..n : i # j => s[i] # s[j] } : n \in 0..MaxItems }

\* rio_tiler's mosaic_reader with the default pixel selection and the
\* default allowed_exceptions=(TileOutsideBounds,), which the call does not
\* override: the items are read in order through _reader, which opens
\* self.reader(item) and reads the tile; an item that does not cover the
\* tile raises TileOutsideBounds and is skipped, any other exception of a
\* reader (an item in broken: its asset cannot be opened or read) is raised
\* to the caller, the first image ends the loop, and no image at all raises
\* EmptyMosaicError.
mosaic_reader(mosaic_assets, readable, broken) ==
    LET ends == {i \in DOMAIN mosaic_assets :
                    mosaic_assets[i] \in readable \cup broken} IN
    IF ends = {}
    THEN [kind |-> "raise", exc |-> "EmptyMosaicError", v |-> << >>,
          opened |-> mosaic_assets, used_assets |-> << >>, timings |-> << >>]
    ELSE LET first == CHOOSE i \in ends : \A j \in ends : i <= j IN
         IF mosaic_assets[first] \in broken
         THEN [kind |-> "raise", exc |-> "reader exception", v |-> << >>,
               opened |-> SubSeq(mosaic_assets, 1, first),
               used_assets |-> << >>, timings |-> << >>]
         ELSE [kind |-> "image", exc |-> None, v |-> << >>,
               opened |-> SubSeq(mosaic_assets, 1, first),
               used_assets |-> <<mosaic_assets[first]>>, timings |-> << >>]

\* the same method without the test on mosaic_assets
tile_unchecked(tile_x, tile_y, tile_z, mosaic_assets, readable, broken) ==
    LET img == mosaic_reader(mosaic_assets, readable, broken) IN
    IF img.kind = "image"
    THEN [img EXCEPT !.timings = <<"search", "mosaicking">>]
    ELSE img

\* mosaic_assets = self.assets_for_tile(...); if not mosaic_assets: raise
\* NoAssetFoundError(f"No assets found for tile {tile_z}-{tile_x}-{tile_y}")
tile(tile_x, tile_y, tile_z, mosaic_assets, readable, broken) ==
    IF mosaic_assets = << >>
    THEN [kind |-> "raise", exc |-> "NoAssetFoundError",
          v |-> <<tile_z, tile_x, tile_y>>, opened |-> << >>,
          used_assets |-> << >>, timings |-> << >>]
    ELSE LET img == mosaic_reader(mosaic_assets, readable, broken) IN
         IF img.kind = "image"
         THEN [img EXCEPT !.timings = <<"search", "mosaicking">>]
         ELSE img

\* assets_for_tile(x, y, z, **kwargs): the call of get_assets it makes,
\* self.get_assets(Polygon.from_bounds(*bbox), **kwargs)
assets_for_tile(x, y, z, kwargs) ==
    [geom |-> <<"Polygon", <<"bounds", x, y, z>> >>, kwargs |-> kwargs]

\* the call of get_assets that tile makes: self.assets_for_tile(tile_x,
\* tile_y, tile_z, search_query=search_query)
tile_search(tile_x, tile_y, tile_z, search_query, kwargs) ==
    assets_for_tile(tile_x, tile_y, tile_z,
                    << <<"search_query", search_query>> >>)

\* the keyword arguments tile hands to mosaic_reader, and mosaic_reader to
\* the reader of each item: **kwargs
tile_reader_kwargs(kwargs) == kwargs

\* the search queries and the other keyword arguments tile is called with
SearchQueries == {None, "collections=col"}

TileKwargs ==
    { << >>,
      << <<"search_options", << <<"limit", "10">> >> >>,
         <<"assets", <<"cog">> >> >> }

InitTile ==
    /\ CacheAtRest
    /\ NoRequest

\* a caller asks the backend for the tile (tile_x, tile_y, tile_z); the
\* search returns mosaic_assets, of which the items in readable cover it
\* and the items in broken have an asset that cannot be opened or read
Tile(tile_x, tile_y, tile_z, search_query, kwargs, mosaic_assets, readable, broken) ==
    /\ mosaic = NoTile
    /\ mosaic' = [tile_x |-> tile_x, tile_y |-> tile_y, tile_z |-> tile_z,
                  search_query |-> search_query, kwargs |-> kwargs,
                  get_assets |-> tile_search(tile_x, tile_y, tile_z,
                                             search_query, kwargs),
                  reader_kwargs |-> tile_reader_kwargs(kwargs),
                  mosaic_assets |-> mosaic_assets, readable |-> readable,
                  broken |-> broken,
                  result |-> tile(tile_x, tile_y, tile_z, mosaic_assets,
                                  readable, broken)]
    /\ UNCHANGED <<coreVars, registry, fetch, agg, ogcVars>>

NextTile ==
    /\ mosaic = NoTile
    /\ \E tile_x, tile_y, tile_z \in TileRange :
          \E search_query \in SearchQueries, kwargs \in TileKwargs,
             mosaic_assets \in Found, readable \in SUBSET Items :
              \E broken \in SUBSET (Items \ readable) :
                  Tile(tile_x, tile_y, tile_z, search_query, kwargs,
                       mosaic_assets, readable, broken)

SpecTile == InitTile /\ [][NextTile]_vars

(***************************************************************************)
(* Client.get_aggregation (pystac/advanced_client.py).                     *)
(*                                                                         *)
(* The client is what the catalog answers: the names its aggregations link *)
(* lists, and the document its aggregate endpoint returns.                 *)
(***************************************************************************)
\* the response is falsy (None, [] or {})
NoAggregateResponse == [empty |-> TRUE, aggregations |-> << >>]

AggregateResponse(aggregations) ==
    [empty |-> FALSE, aggregations |-> aggregations]

\* get_supported_aggregations: [agg["name"] for agg in aggregations]
get_supported_aggregations(client) == client.supported

\* the same lookup returning the buckets of the first aggregation of the
\* response, whatever its name
get_aggregation_first(client, collection_id, aggregation, aggregation_params) ==
    IF aggregation \notin Range(get_supported_aggregations(client))
    THEN [value |-> << >>, requests |-> << >>, warned |-> TRUE]
    ELSE LET url == [collection |-> collection_id, aggregations |-> aggregation,
                     params |-> aggregation_params]
             aggregation_response == client.aggregate
         IN [value |-> IF aggregation_response.empty
                          \/ aggregation_response.aggregations = << >>
                       THEN << >>
                       ELSE aggregation_response.aggregations[1].buckets,
             requests |-> <<url>>, warned |-> FALSE]

get_aggregation(client, collection_id, aggregation, aggregation_params) ==
    IF aggregation \notin Range(get_supported_aggregations(client))
    THEN [value |-> << >>, requests |-> << >>, warned |-> TRUE]
    ELSE LET url == [collection |-> collection_id, aggregations |-> aggregation,
                     params |-> aggregation_params]
             aggregation_response == client.aggregate
             named == {i \in DOMAIN aggregation_response.aggregations :
                          aggregation_response.aggregations[i].name = aggregation}
         IN [value |-> IF aggregation_response.empty \/ named = {}
                       THEN << >>
                       ELSE \* the loop keeps the last aggregation of that name
                            aggregation_response.aggregations[
                                CHOOSE i \in named : \A j \in named : j <= i].buckets,
             requests |-> <<url>>, warned |-> FALSE]

(***************************************************************************)
(* get_layer_from_collections: the layer registry built from the           *)
(* collections of the catalog.                                             *)
(*                                                                         *)
(* A dict is the sequence of its key/value pairs in insertion order.  A    *)
(* JSON value is a record: a text, a list of values, or null; a number is  *)
(* the text str() gives it.                                                *)
(***************************************************************************)
Null == [kind |-> "none", s |-> "", l |-> << >>]

Text(s) == [kind |-> "str", s |-> s, l |-> << >>]

List(l) == [kind |-> "list", s |-> "", l |-> l]

\* a JSON object, by its name
Object(s) == [kind |-> "dict", s |-> s, l |-> << >>]

\* the "aggregation" entry of a render: {"name": name, "params": params}
Aggregation(name, params) == [kind |-> "dict", s |-> name, l |-> params]

IsTrue(v) ==
    \/ v.kind = "str" /\ v.s # ""
    \/ v.kind = "list" /\ v.l # << >>
    \/ v.kind = "dict"

DictKeys(d) == {d[i][1] : i \in DOMAIN d}

\* d.get(k, default)
DictGet(d, k, default) ==
    IF k \in DictKeys(d)
    THEN d[CHOOSE i \in DOMAIN d : d[i][1] = k][2]
    ELSE default

\* d after d.pop(k, None)
DictPop(d, k) == SelectSeq(d, LAMBDA p : p[1] # k)

\* d after d[k] = v
DictPut(d, k, v) ==
    IF k \in DictKeys(d)
    THEN [i \in DOMAIN d |-> IF d[i][1] = k THEN <<k, v>> ELSE d[i]]
    ELSE Append(d, <<k, v>>)

RECURSIVE DictPopAll(_, _)
DictPopAll(d, ks) ==
    IF ks = << >> THEN d ELSE DictPopAll(DictPop(d, Head(ks)), Tail(ks))

\* ",".join(map(str, r)) on the pairs the presets use
CommaJoined ==
    { << <<"0", "100">>, "0,100" >>, << <<"0", "255">>, "0,255" >> }

CommaJoin(r) == (CHOOSE p \in CommaJoined : p[1] = r)[2]

\* json.dumps of the colormap objects the presets use
JsonTexts == { <<"blues", "{\"0\": \"#f7fbff\", \"1\": \"#08306b\"}">> }

json_dumps(name) == (CHOOSE p \in JsonTexts : p[1] = name)[2]

\* strptime(t, "%Y-%m-%dT%H:%M:%SZ") and strptime(t, "%Y-%m-%dT%H:%M:%S.000Z")
\* followed by strftime("%Y-%m-%d"): the date of the instant
InstantTexts ==
    { <<"2023-01-05T00:00:00Z", "2023-01-05">>,
      <<"2024-02-29T00:00:00Z", "2024-02-29">>,
      <<"2023-01-05T00:00:00.000Z", "2023-01-05">>,
      <<"2023-01-06T00:00:00.000Z", "2023-01-06">> }

DateOfInstant(t) ==
    strftime(strptime((CHOOSE p \in InstantTexts : p[1] = t)[2])).date

\* (end_date - start_date).days: the whole days of the difference, rounded
\* down
DaysBetween(start_date, end_date) ==
    (end_date.day - start_date.day)
        + ((end_date.ms - start_date.ms) \div MsPerDay)

\* the same step with every interval taken to run until now
interval_end_now(interval, today) == today

\* intervals[0][1] if intervals[0][1] else datetime.now(timezone.utc)
interval_end(interval, today) ==
    IF interval.has_end THEN interval.end ELSE today

\* layer["time"], by the three sources in their order; has_time is false
\* when the layer gets no "time" entry.  requests are the reads of the
\* aggregation endpoint made on the way; raised is the exception the
\* statement ends with: ["cube:dimensions"]["time"]["values"] of a time
\* dimension that has no "values" is a KeyError.
layer_time(catalog, collection, aggregation, today) ==
    IF collection.has_cube_time
    THEN IF collection.has_cube_values
         THEN [has_time |-> TRUE,
               time |-> [i \in DOMAIN collection.cube_time |->
                            DateOfInstant(collection.cube_time[i])],
               requests |-> << >>, raised |-> None]
         ELSE [has_time |-> FALSE, time |-> << >>,
               requests |-> << >>, raised |-> "KeyError"]
    ELSE IF IsTrue(aggregation) /\ aggregation.s = "datetime_frequency"
    \* aggregation["name"] and aggregation["params"]
    THEN LET lookup ==
                 get_aggregation([supported |-> catalog.supported,
                                  aggregate |-> collection.aggregate],
                                 collection.id, "datetime_frequency",
                                 aggregation.l)
             datetime_aggregation == lookup.value
             kept == SelectSeq(datetime_aggregation,
                               LAMBDA t : t.frequency > 0)
         IN [has_time |-> TRUE,
             time |-> [i \in DOMAIN kept |-> DateOfInstant(kept[i].key)],
             requests |-> lookup.requests, raised |-> None]
    ELSE IF collection.intervals # << >>
    THEN LET start_date == collection.intervals[1].start
             end_date   == interval_end(collection.intervals[1], today)
         IN [has_time |-> TRUE,
             time |-> [x \in 1..(DaysBetween(start_date, end_date) + 1) |->
                          strftime(plus_timedelta(start_date, x - 1, 0)).date],
             requests |-> << >>, raised |-> None]
    ELSE [has_time |-> FALSE, time |-> << >>,
          requests |-> << >>, raised |-> None]

\* the special encodings of rescale and colormap in the render dict
encode_render(render) ==
    LET rescale == DictGet(render, "rescale", Null)
        r1 == DictPop(render, "rescale")
        r2 == IF IsTrue(rescale)
              THEN DictPut(r1, "rescale",
                       List([i \in DOMAIN rescale.l |->
                                IF rescale.l[i].kind # "str"
                                THEN Text(CommaJoin([j \in DOMAIN rescale.l[i].l |->
                                                        rescale.l[i].l[j].s]))
                                ELSE rescale.l[i]]))
              ELSE r1
        colormap == DictGet(r2, "colormap", Null)
        r3 == DictPop(r2, "colormap")
    IN IF IsTrue(colormap)
       THEN DictPut(r3, "colormap",
                IF colormap.kind # "str" THEN Text(json_dumps(colormap.s))
                ELSE colormap)
       ELSE r3

\* urlencode([(k, v) for k, v in render.items() if v is not None],
\* doseq=True): one k=v per element of a list
RECURSIVE urlencode(_)
urlencode(d) ==
    IF d = << >> THEN << >>
    ELSE LET k == Head(d)[1]
             v == Head(d)[2]
         IN (CASE v.kind = "none" -> << >>
               [] v.kind = "list" -> [i \in DOMAIN v.l |-> <<k, v.l[i].s>>]
               [] OTHER           -> << <<k, v.s>> >>)
            \o urlencode(Tail(d))

\* tms_limits(supported_tms.get(tms_id), layer["bbox"], zooms=zooms)
tms_limits(tms_id, bbox, zooms) ==
    [tms |-> tms_id, bbox |-> bbox, zooms |-> zooms]

NoLimits == [tms |-> None, bbox |-> << >>, zooms |-> << >>]

\* layer["tilematrixsets"]: an id supported_tms does not know raises in
\* the try and is left out
layer_tilematrixsets(tilematrixsets, tms, bbox) ==
    LET chosen == IF tilematrixsets # << >> THEN tilematrixsets
                  ELSE [i \in DOMAIN tms |-> <<tms[i], << >> >>]
        known  == SelectSeq(chosen, LAMBDA p : p[1] \in Range(tms))
    IN [i \in DOMAIN known |->
           <<known[i][1],
             IF Len(chosen) = 1
             THEN tms_limits(known[i][1], bbox, known[i][2])
             ELSE NoLimits>>]

\* the layer of one entry of collection.extra_fields["renders"]
LayerOf(catalog, collection, name, render0, with_tms, tms, today) ==
    LET tilematrixsets == DictGet(render0, "tilematrixsets", << >>)
        output_format  == DictGet(render0, "format", Null)
        aggregation    == DictGet(render0, "aggregation", Null)
        title          == DictGet(render0, "title", Null)
        render == encode_render(
                      DictPopAll(render0, <<"tilematrixsets", "format",
                                            "aggregation", "title",
                                            "minmax_zoom">>))
        bbox   == collection.bboxes[1]
        times  == layer_time(catalog, collection, aggregation, today)
    IN [id |-> <<collection.id, "_", name>>,
        collection |-> collection.id,
        title |-> title,
        bbox |-> bbox,
        format |-> IF IsTrue(output_format) THEN output_format ELSE Null,
        style |-> "default",
        render |-> render,
        has_time |-> times.has_time,
        time |-> times.time,
        query_string |-> urlencode(render),
        tilematrixsets |-> IF with_tms
                           THEN layer_tilematrixsets(tilematrixsets, tms, bbox)
                           ELSE << >>]

RECURSIVE DictPutAll(_, _)
DictPutAll(d, pairs) ==
    IF pairs = << >> THEN d
    ELSE DictPutAll(DictPut(d, Head(pairs)[1], Head(pairs)[2]), Tail(pairs))

\* for collection in catalog.get_collections(): for name, render in
\* collection.extra_fields["renders"].items(): layers[render_id] = {...}
RECURSIVE LayersOf(_, _, _, _, _)
LayersOf(catalog, collections, with_tms, tms, today) ==
    IF collections = << >> THEN << >>
    ELSE LET collection == Head(collections) IN
         ( IF collection.has_renders
           THEN [i \in DOMAIN collection.renders |->
                    LET layer == LayerOf(catalog, collection,
                                         collection.renders[i][1],
                                         collection.renders[i][2],
                                         with_tms, tms, today)
                    IN <<layer.id, layer>>]
           ELSE << >> )
         \o LayersOf(catalog, Tail(collections), with_tms, tms, today)

\* what the time lists of the layers cost, in the order the layers are
\* made: one entry per render of each collection
RECURSIVE LayerTimes(_, _, _)
LayerTimes(catalog, collections, today) ==
    IF collections = << >> THEN << >>
    ELSE LET collection == Head(collections) IN
         ( IF collection.has_renders
           THEN [i \in DOMAIN collection.renders |->
                    layer_time(catalog, collection,
                               DictGet(collection.renders[i][2],
                                       "aggregation", Null),
                               today)]
           ELSE << >> )
         \o LayerTimes(catalog, Tail(collections), today)

\* the entries before the first one that raised
BeforeRaise(times) ==
    LET raising == {i \in DOMAIN times : times[i].raised # None}
    IN IF raising = {} THEN times
       ELSE SubSeq(times, 1, (CHOOSE i \in raising : \A j \in raising : i <= j) - 1)

RECURSIVE RequestsOf(_)
RequestsOf(times) ==
    IF times = << >> THEN << >>
    ELSE Head(times).requests \o RequestsOf(Tail(times))

\* with_tms: supported_tms was passed (it is None otherwise)
get_layer_from_collections(catalog, with_tms, tms, today) ==
    DictPutAll(<< >>, LayersOf(catalog, catalog.collections, with_tms, tms, today))

(***************************************************************************)
(* The registry built from a catalog snapshot: get_layer_from_collections  *)
(* is called again on the same catalog (the cache is disabled, or its      *)
(* entry has expired) while the clock runs.                                *)
(***************************************************************************)
MaxBuilds == 2

\* supported_tms of the factory: the one scheme the application registers,
\* or two
SupportedTms ==
    { <<"WebMercatorQuad">>, <<"WebMercatorQuad", "WorldCRS84Quad">> }

Instant(y, m, d, ms) == [day |-> DaysFromCivil(y, m, d), ms |-> ms]

Closed(start, end) == [start |-> start, has_end |-> TRUE, end |-> end]

\* an interval whose end is null
Open(start) == [start |-> start, has_end |-> FALSE, end |-> start]

Collection(id, bbox, intervals, renders) ==
    [id |-> id, bboxes |-> <<bbox>>, intervals |-> intervals,
     has_renders |-> renders # << >>, renders |-> renders,
     has_cube_time |-> FALSE, has_cube_values |-> FALSE, cube_time |-> << >>,
     aggregate |-> NoAggregateResponse]

Bucket(key, frequency) == [key |-> key, frequency |-> frequency]

\* the collections a catalog is made of
Cube ==
    [Collection("cube", <<-10, -10, 10, 10>>,
                <<Closed(Instant(2023, 1, 5, 0), Instant(2023, 1, 7, 0))>>,
                << <<"visual",
                     << <<"title", Text("Visual")>>,
                        <<"assets", List(<<Text("visual")>>)>>,
                        <<"rescale", List(<<List(<<Text("0"), Text("255")>>)>>)>>,
                        <<"aggregation", Aggregation("datetime_frequency", << >>)>>,
                        <<"format", Text("image/png")>> >> >> >>)
     EXCEPT !.has_cube_time = TRUE, !.has_cube_values = TRUE,
            !.cube_time = <<"2023-01-05T00:00:00Z", "2024-02-29T00:00:00Z">>]

Aggregated ==
    [Collection("agg", <<0, 0, 20, 20>>,
                <<Closed(Instant(2023, 1, 5, 0), Instant(2023, 1, 7, 0))>>,
                << <<"color",
                     << <<"assets", List(<<Text("B04"), Text("B03")>>)>>,
                        <<"aggregation",
                          Aggregation("datetime_frequency",
                              << <<"datetime_frequency_interval", "day">> >>)>>,
                        <<"colormap", Object("blues")>>,
                        <<"tilematrixsets", << <<"WebMercatorQuad", <<0, 5>> >> >> >>,
                        <<"minmax_zoom", List(<<Text("0"), Text("5")>>)>> >> >> >>)
     EXCEPT !.aggregate =
                AggregateResponse(
                    << [name |-> "total_count", buckets |-> << >>],
                       [name |-> "datetime_frequency",
                        buckets |-> << Bucket("2023-01-05T00:00:00.000Z", 2),
                                       Bucket("2023-01-06T00:00:00.000Z", 0) >>] >>)]

Archive ==
    Collection("archive", <<-180, -90, 180, 90>>,
               <<Closed(Instant(2023, 1, 5, 0), Instant(2023, 1, 7, 0))>>,
               << <<"gray", << <<"assets", List(<<Text("B01")>>)>>,
                               <<"rescale", List(<<Text("0,100")>>)>>,
                               <<"tilematrixsets",
                                 << <<"WebMercatorQuad", << >> >>,
                                    <<"EuropeanETRS89_LAEAQuad", << >> >> >> >> >> >>,
                  <<"plain", << <<"assets", List(<<Text("B02")>>)>> >> >> >>)

\* a collection still being acquired
Ongoing ==
    Collection("live", <<5, 5, 6, 6>>,
               <<Open(Instant(2024, 2, 29, 0))>>,
               << <<"ndvi", << <<"title", Text("NDVI")>>,
                               <<"expression", Text("(B08-B04)/(B08+B04)")>> >> >> >>)

\* a collection the aggregation finds no item of
Sparse ==
    [Collection("sparse", <<0, 0, 3, 3>>,
                <<Closed(Instant(2023, 1, 5, 0), Instant(2023, 1, 6, 0))>>,
                << <<"mask",
                     << <<"assets", List(<<Text("mask")>>)>>,
                        <<"aggregation",
                          Aggregation("datetime_frequency", << >>)>> >> >> >>)
     EXCEPT !.aggregate =
                AggregateResponse(
                    << [name |-> "datetime_frequency",
                        buckets |-> << Bucket("2023-01-05T00:00:00.000Z", 0) >>] >>)]

\* a collection whose time dimension gives its extent and step, not its
\* values
Gridded ==
    [Collection("grid", <<0, 0, 2, 2>>,
                <<Closed(Instant(2023, 1, 5, 0), Instant(2023, 1, 6, 0))>>,
                << <<"mean", << <<"assets", List(<<Text("mean")>>)>> >> >> >>)
     EXCEPT !.has_cube_time = TRUE]

\* a collection without renders gives no layer
Bare ==
    Collection("bare", <<0, 0, 1, 1>>,
               <<Closed(Instant(2023, 1, 5, 0), Instant(2023, 1, 5, 0))>>, << >>)

CatalogCollections ==
    <<Cube, Aggregated, Archive, Ongoing, Sparse, Gridded, Bare>>

RECURSIVE SubSeqs(_)
SubSeqs(s) ==
    IF s = << >> THEN { << >> }
    ELSE LET rest == SubSeqs(Tail(s))
         IN rest \cup { <<Head(s)>> \o r : r \in rest }

\* the catalog snapshots: some of the collections, in their order
Snapshots ==
    { [supported |-> <<"total_count", "datetime_frequency">>, collections |-> cs] :
         cs \in SubSeqs(CatalogCollections) }

\* the clock starts at noon of the day Ongoing begins and runs for a day
FirstDay == Instant(2024, 2, 29, 12 * 60 * 60 * 1000)

LastDay == Instant(2024, 3, 1, 12 * 60 * 60 * 1000)

InitRegistry ==
    /\ CoreAtRest
    /\ mosaic = NoTile
    /\ fetch = NoFetch
    /\ agg = NoLookup
    /\ NoRequest
    /\ registry \in { [catalog |-> c, supported_tms |-> tms,
                        today |-> FirstDay, built |-> << >>] :
                         c \in Snapshots, tms \in SupportedTms }

\* get_layer_from_collections(api_params) or
\* get_layer_from_collections(api_params, supported_tms=supported_tms)
Build(with_tms) ==
    /\ Len(registry.built) < MaxBuilds
    /\ LET times == LayerTimes(registry.catalog, registry.catalog.collections,
                               registry.today)
           done  == BeforeRaise(times)
       IN registry' =
           [registry EXCEPT !.built =
               Append(@, [today |-> registry.today, with_tms |-> with_tms,
                          raised |-> IF done = times THEN None
                                     ELSE times[Len(done) + 1].raised,
                          aggregate_requests |-> RequestsOf(done),
                          layers |-> IF done # times THEN << >>
                                     ELSE get_layer_from_collections(
                                              registry.catalog, with_tms,
                                              registry.supported_tms,
                                              registry.today)])]
    /\ UNCHANGED <<coreVars, mosaic, fetch, agg, ogcVars>>

\* a day passes; the catalog does not change
NextDay ==
    /\ registry.today.day < LastDay.day
    /\ registry' = [registry EXCEPT !.today = plus_timedelta(@, 1, 0)]
    /\ UNCHANGED <<coreVars, mosaic, fetch, agg, ogcVars>>

NextRegistry ==
    \/ \E with_tms \in BOOLEAN : Build(with_tms)
    \/ NextDay

SpecRegistry == InitRegistry /\ [][NextRegistry]_vars

(***************************************************************************)
(* The requests of a catalog call.  get_assets, get_stac_item and          *)
(* get_layer_from_collections each open a StacApiIO with                   *)
(* max_retries=Retry(total=retry_config.retry, backoff_factor=...): the    *)
(* session sends a request again after a failure until the Retry object    *)
(* is exhausted.                                                           *)
(***************************************************************************)
\* RetrySettings.retry is an integer >= 0 (default 3)
MaxRetry == 3

\* how many times a catalog that recovers fails before it answers
MaxFailures == 2

\* the catalog never recovers
Persistent == -1

CatalogOps == {"item search", "item lookup", "collection listing"}

\* ItemSearch posts its query; the collections are read with GET
method_of(op) == IF op = "collection listing" THEN "GET" ELSE "POST"

\* how a catalog fails: it refuses the connection, it drops the connection
\* before the response, or it answers with a 5xx status
CatalogFailures == {"refuses", "drops", "errors"}

\* Retry: a connection error is always tried again, a read error only for
\* an idempotent method, and a status only if it is in status_forcelist,
\* which the code leaves empty
is_retryable(failure, method) ==
    \/ failure = "refuses"
    \/ failure = "drops" /\ method = "GET"

\* Retry.increment
increment(total) == total - 1

\* a Retry that is never used up
is_exhausted_never(total) == FALSE

\* Retry.is_exhausted
is_exhausted(total) == total < 0

InitRetry ==
    /\ CoreAtRest
    /\ mosaic = NoTile
    /\ registry = NoBuild
    /\ agg = NoLookup
    /\ fetch = NoFetch
    /\ NoRequest

\* a catalog call sends its request, with the retries of the settings
CatalogCall(op, retry, catalog, failures) ==
    /\ fetch.pc = "idle"
    /\ fetch' = [pc |-> "request", op |-> op, method |-> method_of(op),
                 catalog |-> catalog, failures |-> failures, retry |-> retry,
                 total |-> retry, attempts |-> 0, result |-> None]
    /\ UNCHANGED <<coreVars, mosaic, registry, agg, ogcVars>>

\* one attempt of the request: the catalog answers, or it fails and the
\* request is given up or left to be sent again
Attempt ==
    /\ fetch.pc = "request"
    /\ fetch.attempts < MaxRetry + 2
    /\ LET fails == /\ fetch.catalog # "up"
                    /\ \/ fetch.failures = Persistent
                       \/ fetch.attempts < fetch.failures
           total == increment(fetch.total)
       IN fetch' =
           IF ~fails
           THEN [fetch EXCEPT !.attempts = @ + 1, !.pc = "done",
                              !.result = "response"]
           ELSE IF ~is_retryable(fetch.catalog, fetch.method)
           THEN [fetch EXCEPT !.attempts = @ + 1, !.pc = "done",
                              !.result = fetch.catalog]
           ELSE IF is_exhausted(total)
           THEN [fetch EXCEPT !.attempts = @ + 1, !.total = total,
                              !.pc = "done", !.result = "MaxRetryError"]
           ELSE [fetch EXCEPT !.attempts = @ + 1, !.total = total]
    /\ UNCHANGED <<coreVars, mosaic, registry, agg, ogcVars>>

NextRetry ==
    \/ \E op \in CatalogOps, retry \in 0..MaxRetry :
          \/ CatalogCall(op, retry, "up", 0)
          \/ \E catalog \in CatalogFailures,
                failures \in {Persistent} \cup 1..MaxFailures :
                 CatalogCall(op, retry, catalog, failures)
    \/ Attempt

\* the session sends a request it has to send
SpecRetry == InitRetry /\ [][NextRetry]_vars /\ WF_vars(Attempt)

(***************************************************************************)
(* The GetCapabilities branch of web_map_service, given the registry.      *)
(***************************************************************************)
MinOf(S) == CHOOSE x \in S : \A y \in S : x <= y

MaxOf(S) == CHOOSE x \in S : \A y \in S : y <= x

\* minx, miny, maxx, maxy = zip(*[layers_dict[lay]["bounds_wgs84"] for lay
\* in layers]): zip of no bounds yields nothing and the unpacking raises
\* ValueError; service_dict is min(minx), min(miny), max(maxx), max(maxy)
wms_getcapabilities(layers) ==
    LET bounds_wgs84 == [i \in DOMAIN layers |-> layers[i][2].bbox]
        ordinate(n)  == {bounds_wgs84[i][n] : i \in DOMAIN layers}
    IN IF layers = << >>
       THEN [status |-> 500, body |-> "detail", msg |-> "ValueError",
             service_dict |-> << >>]
       ELSE [status |-> 200, body |-> "xml", msg |-> "",
             service_dict |-> <<MinOf(ordinate(1)), MinOf(ordinate(2)),
                                MaxOf(ordinate(3)), MaxOf(ordinate(4))>>]

(***************************************************************************)
(* A call of Client.get_aggregation on a catalog.                          *)
(***************************************************************************)
\* the aggregations of a response
MaxAggregations == 2

AggregationNames == {"datetime_frequency", "total_count"}

BucketLists ==
    { <<Bucket("2023-12-11T00:00:00.000Z", 1)>>,
      <<Bucket("2023-01-05T00:00:00.000Z", 2), Bucket("2023-01-06T00:00:00.000Z", 0)>> }

NamedAggregations ==
    { [name |-> n, buckets |-> b] : n \in AggregationNames, b \in BucketLists }

\* what the aggregate endpoint answers: nothing, or a document with its
\* aggregations
AggregateResponses ==
    {NoAggregateResponse}
        \cup { AggregateResponse(a) :
                  a \in UNION { [1..n -> NamedAggregations] :
                                   n \in 0..MaxAggregations } }

\* the clients: the aggregations the catalog lists as supported, and what
\* its aggregate endpoint answers
Clients ==
    { [supported |-> s, aggregate |-> r] :
         s \in { << >>, <<"datetime_frequency">>, <<"total_count">>,
                 <<"total_count", "datetime_frequency">> },
         r \in AggregateResponses }

InitAggregation ==
    /\ CoreAtRest
    /\ mosaic = NoTile
    /\ registry = NoBuild
    /\ fetch = NoFetch
    /\ agg = NoLookup
    /\ NoRequest

\* client.get_aggregation(collection_id, aggregation, aggregation_params)
GetAggregation(client, collection_id, aggregation, aggregation_params) ==
    /\ ~agg.called
    /\ agg' = [client |-> client, collection_id |-> collection_id,
               aggregation |-> aggregation, params |-> aggregation_params,
               called |-> TRUE,
               result |-> get_aggregation(client, collection_id, aggregation,
                                          aggregation_params)]
    /\ UNCHANGED <<coreVars, mosaic, registry, fetch, ogcVars>>

NextAggregation ==
    \E client \in Clients, aggregation \in AggregationNames \cup {"unsupported-aggregation"},
       aggregation_params \in { << >>, << <<"datetime_frequency_interval", "day">> >> } :
        GetAggregation(client, "sentinel-2-l2a", aggregation, aggregation_params)

SpecAggregation == InitAggregation /\ [][NextAggregation]_vars

(***************************************************************************)
(* Tile and map requests served from the registry: get_tile and            *)
(* get_map_data on a layer get_layer_from_collections built.  The registry *)
(* is the object the cache holds, the same for every request; a dict       *)
(* object is its items and whether it is the render dict of the layer      *)
(* itself.                                                                 *)
(***************************************************************************)
\* query_params = layer.get("render"): the dict of the layer itself
copy_none(d) == [items |-> d, of_layer |-> TRUE]

\* copy(layer.get("render")): a dict of its own with the same items
copy(d) == [items |-> d, of_layer |-> FALSE]

\* query_params[k] = v
SetItem(q, k, v) == [q EXCEPT !.items = DictPut(@, k, v)]

\* the datetime text of the day of req_time
Window(req_time) ==
    [kind |-> "str", s |-> "datetime", l |-> time_window(req_time)]

\* query_params = copy(layer.get("render")) or {}, and the entries the
\* request adds to it
query_params_of(req, layer) ==
    LET req_time == Get(req, "time", None)
        copied   == copy(layer.render)
        q0 == IF copied.items = << >>
              THEN [items |-> << >>, of_layer |-> FALSE] ELSE copied
        q1 == IF Truthy(req_time)
              THEN SetItem(q0, "datetime", Window(req_time)) ELSE q0
        q2 == IF Has(req, "color_formula")
              THEN SetItem(q1, "color_formula", Text(req["color_formula"])) ELSE q1
    IN IF Has(req, "expression")
       THEN SetItem(q2, "expression", Text(req["expression"])) ELSE q2

\* SearchParams: the search of the query parameters ids, bbox, datetime
\* and filter; no preset or request here names ids or bbox
SearchParams(query_params) ==
    [collections |-> << >>, ids |-> Null, bbox |-> Null,
     datetime |-> DictGet(query_params, "datetime", Null),
     filter |-> DictGet(query_params, "filter", Null)]

\* the search as SearchParams made it
pin_none(search_query, layer) == search_query

\* search_query["collections"] = [layer["collection"]]
pin(search_query, layer) ==
    [search_query EXCEPT !.collections = <<layer.collection>>]

\* the layers as the last build left them
ServedLayers == registry.built[Len(registry.built)].layers

\* the parameters a request overrides the preset with
Overrides ==
    { [k \in ks |-> CASE k = "time" -> t
                      [] k = "color_formula" -> "gamma r 1.5"
                      [] k = "expression" -> "B04/B03"
                      [] OTHER -> "viridis"] :
        ks \in SUBSET {"time", "color_formula", "expression", "colormap"},
        t \in {"2023-01-05", "2024-02-29"} }

Overridden(q, o) == [k \in DOMAIN q \cup DOMAIN o |-> IF k \in DOMAIN o THEN o[k] ELSE q[k]]

\* the catalogs served: one or two collections, each with a readable time
\* dimension
ServedCatalogs ==
    {c \in Snapshots : /\ Len(c.collections) \in 1..2
                       /\ Gridded \notin Range(c.collections)
                       /\ Bare \notin Range(c.collections)}

InitServe ==
    /\ CoreAtRest
    /\ mosaic = NoTile
    /\ fetch = NoFetch
    /\ agg = NoLookup
    /\ NoRequest
    /\ registry \in { [catalog |-> c, supported_tms |-> <<"WebMercatorQuad">>,
                       today |-> FirstDay, built |-> << >>] :
                         c \in ServedCatalogs }

\* a GetTile (/wmts) or GetMap (/wms) request for layer i, past the checks
\* of the handler, in get_tile or get_map_data
Serve(e, i, o) ==
    /\ registry.built # << >>
    /\ i \in DOMAIN ServedLayers
    /\ LET layer == ServedLayers[i][2]
           req   == Overridden(IF e = "wmts" THEN WmtsTile(layer.id)
                               ELSE WmsMap(layer.id), o)
           r     == IF e = "wmts"
                    THEN get_tile(req, layer, "image", <<"get_layer_from_collections">>)
                    ELSE get_map_data(req, GetMapKeys, "GetMap", layer, "1.3.0",
                                      <<"get_layer_from_collections">>)
           query_params == query_params_of(req, layer)
       IN /\ endpoint' = e
          /\ raw' = req
          /\ resp' = IF r.searched
                     THEN [r EXCEPT !.search = pin(SearchParams(query_params.items), layer)]
                     ELSE r
          /\ registry' =
                 IF r.searched /\ query_params.of_layer
                 THEN [registry EXCEPT !.built[Len(registry.built)].layers[i][2].render =
                                           query_params.items]
                 ELSE registry
    /\ UNCHANGED <<coreVars, mosaic, fetch, agg, edits>>

NextServe ==
    \/ Build(TRUE)
    \/ \E e \in Endpoints, i \in 1..3, o \in Overrides : Serve(e, i, o)

SpecServe == InitServe /\ [][NextServe]_vars

(***************************************************************************)
(* Properties of the result cache.                                         *)
(***************************************************************************)
TotalSearches == SumOver(nsearch, OpKeys)

CalledKeys == { <<c.op, KeyOf(c)>> : c \in called }

\* The calls started so far, as classes of equal argument tuples.
CalledTuples == { {d \in called : SameTuple(c, d)} : c \in called }

Missing == {t \in Threads : thr[t].pc = "miss"}

AllReturned == \A t \in Threads : ~InFlight(t)

\* Every call so far was made less than ttl after the first one.
InWindow == firstCall # -1 /\ now < firstCall + cfg.ttl

CachingOn == cfg.ttl > 0 /\ cfg.maxsize > 0

\* C1: while the cache is enabled, two callers of get_assets with the same
\* cache key are never both past a miss: one catalog search is in flight per
\* key and the other callers wait for its result.
C1_AtMostOneInFlight ==
    \A t, u \in Threads :
        (/\ t # u /\ CachingOn
         /\ InFlight(t) /\ InFlight(u)
         /\ thr[t].call.op = "get_assets" /\ thr[u].call.op = "get_assets")
        => thr[t].key # thr[u].key

\* C2 as stated: for sequential get_assets calls inside one TTL window with
\* the cache enabled, the catalog searches issued are as many as the distinct
\* (url, geometry, query, headers, keyword) tuples called.
C2_SearchesEqualDistinctTuples ==
    (CachingOn /\ InWindow /\ AllReturned)
        => TotalSearches = Cardinality(CalledTuples)

\* C2 amended: for sequential get_assets calls inside one TTL window, as long
\* as the distinct cache keys called are no more than maxsize, the catalog
\* searches issued are as many as the distinct cache keys called (the url, the
\* geometry text, the JSON text of the query and of the headers, the keyword
\* arguments), no key is searched twice, and two calls share a key only when
\* they are the same tuple.
C2_KeyDeterminism ==
    (InWindow /\ Cardinality(CalledKeys) <= cfg.maxsize)
        => /\ TotalSearches + Cardinality(Missing) = Cardinality(CalledKeys)
           /\ \A k \in OpKeys : nsearch[k] <= 1
           /\ \A c, d \in called : KeyOf(c) = KeyOf(d) => SameTuple(c, d)

\* Three calls of two distinct keys, all answered inside the window, with
\* two searches.
C2_Witness ==
    /\ InWindow /\ AllReturned
    /\ ncalls = 3 /\ Cardinality(CalledKeys) = 2 /\ cfg.maxsize >= 2
    /\ TotalSearches = 2
    /\ \E t \in Threads : thr[t].pc = "done" /\ thr[t].hit

\* C3: a value stored at time s is served from the cache only to lookups made
\* before s + ttl (so the first call at or after s + ttl queries the catalog
\* again), and what a call fetched is stored with the time of the store.
C3_NoStaleReads ==
    /\ [](\A t \in Threads :
            (thr[t].pc = "done" /\ thr[t].hit)
                => /\ thr[t].at < thr[t].entry.stored + cfg.ttl
                   /\ thr[t].value = thr[t].entry.value
                   /\ thr[t].entry.key = thr[t].key)
    /\ [][\A t \in Threads :
            (thr[t].pc = "fetched" /\ thr'[t].pc = "done" /\ cfg.maxsize >= 1)
                => \E i \in DOMAIN caches'[thr[t].call.op] :
                     LET e == caches'[thr[t].call.op][i] IN
                     /\ e.key = thr[t].key /\ e.value = thr[t].value
                     /\ e.stored = now /\ e.expires = now + cfg.ttl]_vars

\* One caller, two calls of one key: the second, made after the entry of the
\* first expired, was answered by a second catalog search.
C3_Witness ==
    /\ CachingOn
    /\ thr["t2"].pc = "idle"
    /\ thr["t1"].pc = "done" /\ ~thr["t1"].hit
    /\ thr["t1"].value =
           << <<thr["t1"].call.op, thr["t1"].key>>, 2, thr["t1"].call, "found" >>
    /\ thr["t1"].at >= cfg.ttl

\* C4: with ttl = 0 or maxsize = 0, and so with disable set, no call is
\* answered from the cache and every call queries the catalog.
C4_DisabledAlwaysMisses ==
    (cfg.disable \/ cfg.ttl = 0 \/ cfg.maxsize = 0)
        => /\ \A t \in Threads : ~thr[t].hit
           /\ TotalSearches + Cardinality(Missing) = ncalls

\* The cache is disabled and one key was called twice and searched twice.
C4_Witness ==
    /\ cfg.disable /\ AllReturned /\ ncalls = 2
    /\ \E k \in OpKeys : nsearch[k] = 2

(***************************************************************************)
(* Properties of the OGC endpoints.                                        *)
(***************************************************************************)
\* the request as the handler reads it
Req == LowerKeys(raw)

\* the request names the endpoint's own service
ServiceGiven == Has(Req, "service") /\ Lower(Req["service"]) = endpoint

SupportedVersions ==
    IF endpoint = "wmts" THEN <<"1.0.0">> ELSE <<"1.0.0", "1.1.1", "1.3.0">>

DefaultVersion == IF endpoint = "wmts" THEN "1.0.0" ELSE "1.3.0"

RequestIs(names) == Has(Req, "request") /\ Lower(Req["request"]) \in names

\* the parameter that names the layer, and the layer it names
LayerKey == IF endpoint = "wmts" THEN "layer" ELSE "layers"

LayerNamed == Has(Req, LayerKey) /\ Req[LayerKey] \in DOMAIN LayerRegistry

RequestedLayer == LayerRegistry[Req[LayerKey]]

Sans(q, k) == [x \in DOMAIN q \ {k} |-> q[x]]

\* the request is one of the valid tile, map or feature-info requests for a
\* layer with a time list, but for its TIME parameter
ValidButForTime ==
    \E b \in BaseRequests :
        /\ b.endpoint = endpoint
        /\ Has(b.query, "time")
        /\ Sans(Req, "time") = Sans(b.query, "time")

DayWindow(d) ==
    <<[date |-> d, hh |-> 0, mm |-> 0, ss |-> 0],
      [date |-> d, hh |-> 23, mm |-> 59, ss |-> 59]>>

PaddedDates == {p[1] : p \in DateTexts}

\* C5: a /wmts (resp. /wms) request without SERVICE is answered 400 with
\* the endpoint's "Missing ... 'SERVICE' parameter." detail, one whose
\* SERVICE is not the endpoint's name in any letter case is answered 400,
\* and in both cases nothing was called before the answer: no registry
\* lookup, no backend.
C5_ServiceGate ==
    Answered =>
        /\ ~Has(Req, "service") =>
              /\ resp.status = 400
              /\ resp.msg = (IF endpoint = "wmts"
                             THEN "Missing WMTS 'SERVICE' parameter."
                             ELSE "Missing WMS 'SERVICE' parameter.")
              /\ resp.effects = << >> /\ ~resp.searched
        /\ (Has(Req, "service") /\ Lower(Req["service"]) # endpoint) =>
              /\ resp.status = 400
              /\ resp.v = <<Req["service"]>>
              /\ resp.effects = << >> /\ ~resp.searched

C5_Witness ==
    /\ Answered /\ endpoint = "wmts" /\ resp.status = 400
    /\ Has(Req, "service") /\ Req["service"] = "WMS"
    /\ RequestIs({"gettile"})

\* C6: with the endpoint's service named, a VERSION outside the supported
\* versions is answered 400 with the "Invalid 'VERSION' parameter" detail
\* carrying the value and the supported list, on /wmts and on /wms; an
\* absent VERSION stands for 1.0.0 on /wmts and 1.3.0 on /wms.
C6_VersionHandling ==
    (Answered /\ ServiceGiven) =>
        /\ (Has(Req, "version") /\ Req["version"] \notin Range(SupportedVersions)) =>
              /\ resp.status = 400
              /\ resp.v = <<Req["version"]>>
              /\ resp.list = SupportedVersions
        /\ (~Has(Req, "version") /\ resp.body = "xml") =>
              resp.version = DefaultVersion

C7_Required ==
    {"service", "request", "version", "layer", "style", "format",
     "tilematrixset", "tilematrix", "tilerow", "tilecol"}

C7_Absent == C7_Required \ DOMAIN Req

C8_TimeValidation ==
    /\ (Answered /\ ValidButForTime) =>
          /\ ~Has(Req, "time") =>
                /\ resp.status = 400
                /\ resp.msg = "Missing 'TIME' parameters for layer {layer['id']}"
          /\ (Has(Req, "time") /\ Req["time"] \notin Range(RequestedLayer.time)) =>
                /\ resp.status = 400
                /\ resp.msg = "Invalid 'TIME' parameter: {req_time}. Not available."
                /\ resp.v = <<Req["time"]>>
    /\ (Answered /\ LayerNamed /\ resp.body \in {"image", "geojson"}) =>
          (HasTimes(RequestedLayer) =>
              Has(Req, "time") /\ Req["time"] \in Range(RequestedLayer.time))

\* C9: for a layer without a time list, the search handed to the backend
\* never carries a datetime, whatever TIME the request supplies.
C9_TimeInvariantLayer ==
    (Answered /\ LayerNamed /\ resp.searched /\ ~HasTimes(RequestedLayer)) =>
        resp.search.datetime = << >>

C11_SuccessHeaders ==
    (Answered /\ resp.status = 200 /\ resp.body = "image") =>
        image_headers(Image) \subseteq resp.headers

\* the media type a FORMAT segment stands for
MimeOf(ext) == IF ext = "png" THEN "image/png" ELSE "image/bmp"

\* the key-value GetTile request with the values of a REST path
KvpOf(path) ==
    [k \in GetTileKeys \cup {"time"} |->
        CASE k = "service" -> "WMTS"
          [] k = "request" -> "GetTile"
          [] k = "version" -> "1.0.0"
          [] k = "format"  -> MimeOf(path["format"])
          [] OTHER         -> path[k]]

\* C12: the REST tile route and the key-value GetTile with the same values
\* agree: one hands a search to the backend exactly when the other does,
\* and then for the same collections and the same datetime.
C12_RestKvpEquivalence ==
    (endpoint = "rest" /\ Answered) =>
        \A out \in BackendOutcomes :
            LET kvp == web_map_tile_service(KvpOf(raw), out) IN
            /\ resp.searched = kvp.searched
            /\ resp.searched =>
                  /\ resp.search.collections = kvp.search.collections
                  /\ Len(resp.search.datetime) = Len(kvp.search.datetime)

\* the backend was asked for a map
PartCalled == Answered /\ "part" \in Range(resp.effects)

\* the CRS and the bbox of the request as sent
SentCrs == from_user_input(Get(Req, "crs", Get(Req, "srs", None)))

SentBbox == [i \in 1..4 |-> float(split(Req["bbox"])[i])]

MapLayerNamed == Has(Req, "layers") /\ Req["layers"] \in DOMAIN LayerRegistry

MapKeysGiven == MapLayerNamed /\ GetMapKeys \subseteq DOMAIN Req

\* the value req.get("crs", req.get("srs")) of a request that has one
CrsValue == Get(Req, "crs", Get(Req, "srs", None))

\* C14: a WMS GetMap or GetFeatureInfo request whose LAYERS value is not an
\* identifier of the registry is answered 400 with the detail
\* "Invalid 'LAYER' parameter: {value}..." carrying that value.
C14_UnknownLayer ==
    (Answered /\ RequestIs({"getmap", "getfeatureinfo"})
        /\ Has(Req, "layers") /\ Req["layers"] \notin DOMAIN LayerRegistry) =>
        /\ resp.status = 400
        /\ resp.msg = "Invalid 'LAYER' parameter: {req['layer']}. Should be one of {list(layers)}."
        /\ resp.v = <<Req["layers"]>>

\* C15: a GetMap request that lacks any of layers, bbox, width, height,
\* format is answered 400 "Missing '{request}' parameters: {keys}" with
\* the keys it lacks; one that has them all but neither CRS nor SRS is
\* answered 400 "Missing 'CRS' or 'SRS parameters."; with either of the two
\* it is not.
C15_RequiredKeys ==
    (Answered /\ RequestIs({"getmap"})) =>
        /\ (GetMapKeys \ DOMAIN Req # {}) =>
              /\ resp.status = 400
              /\ resp.msg = "Missing '{request_type}' parameters: {missing_keys}"
              /\ resp.keys = GetMapKeys \ DOMAIN Req
        /\ (MapKeysGiven /\ DOMAIN Req \cap {"crs", "srs"} = {}) =>
              /\ resp.status = 400
              /\ resp.msg = "Missing 'CRS' or 'SRS parameters."
        /\ (MapKeysGiven /\ DOMAIN Req \cap {"crs", "srs"} # {}) =>
              resp.msg # "Missing 'CRS' or 'SRS parameters."

\* supported_crs: List[str] of the factory
supported_crs == <<"EPSG:4326">>

\* C16: a GetMap request whose CRS (or SRS) value cannot be read as a CRS
\* is answered 400 "Invalid 'CRS' parameter"; one whose CRS can be read but
\* is not a supported CRS is answered 400 "Unsupported 'CRS' parameter".
C16_CrsValidation ==
    (Answered /\ RequestIs({"getmap"}) /\ MapKeysGiven
        /\ DOMAIN Req \cap {"crs", "srs"} # {}) =>
        /\ ~CanParseCrs(CrsValue) =>
              /\ resp.status = 400
              /\ resp.msg = "Invalid 'CRS' parameter."
        /\ (CanParseCrs(CrsValue) /\ CrsValue \notin Range(supported_crs)) =>
              /\ resp.status = 400
              /\ resp.msg = "Unsupported 'CRS' parameter"

\* the BBOX text is four numbers separated by commas
FourNumbers(s) ==
    /\ Len(split(s)) = 4
    /\ \A i \in DOMAIN split(s) : CanFloat(split(s)[i])

\* C17: a GetMap request whose BBOX is not four comma-separated numbers
\* (another count, or a part that is not a number) is answered 400
\* "Invalid 'BBOX' parameters: {v}. Needs 4 coordinates separated by commas".
C17_BboxValidation ==
    (Answered /\ RequestIs({"getmap"}) /\ MapKeysGiven
        /\ Truthy(CrsValue) /\ CanParseCrs(CrsValue)
        /\ ~FourNumbers(Req["bbox"])) =>
        /\ resp.status = 400
        /\ resp.msg = "Invalid 'BBOX' parameters: {req['bbox']}. Needs 4 coordinates separated by commas"
        /\ resp.v = <<Req["bbox"]>>

\* C18: a GetMap request for a layer of the registry whose STYLES is not
\* empty and is not the style of the layer is answered 400
\* "Invalid STYLE '{v}' for layer {id}".
C18_StylesValidation ==
    (Answered /\ RequestIs({"getmap"}) /\ MapLayerNamed
        /\ Has(Req, "styles") /\ Req["styles"] # ""
        /\ Req["styles"] # LayerRegistry[Req["layers"]].style) =>
        /\ resp.status = 400
        /\ resp.v = <<Req["styles"], Req["layers"]>>

\* C19: a GetMap request that gets as far as the backend is answered with
\* an image: asking the backend for the part never signals that it is not
\* implemented.
C19_GetMapSuccess ==
    (PartCalled /\ RequestIs({"getmap"})) =>
        /\ resp.msg # "NotImplementedError"
        /\ resp.status = 200 /\ resp.body = "image"

(***************************************************************************)
(* Properties of STACAPIBackend.tile.                                      *)
(***************************************************************************)
TileCalled == mosaic # NoTile

\* C20: when the search for a tile returns no item, tile raises
\* NoAssetFoundError with the coordinates z-x-y of the tile - no other
\* exception, no image - and no reader was opened.
C20_NoAssets ==
    (TileCalled /\ mosaic.mosaic_assets = << >>) =>
        /\ mosaic.result.kind = "raise"
        /\ mosaic.result.exc = "NoAssetFoundError"
        /\ mosaic.result.v = <<mosaic.tile_z, mosaic.tile_x, mosaic.tile_y>>
        /\ mosaic.result.opened = << >>

C20_Witness ==
    /\ TileCalled /\ mosaic.mosaic_assets = << >>
    /\ mosaic.tile_x = 1 /\ mosaic.tile_y = 0 /\ mosaic.tile_z = 0
    /\ mosaic.result.exc = "NoAssetFoundError"
    /\ mosaic.result.v = <<0, 1, 0>>

(***************************************************************************)
(* Properties of the request handling as a whole.                          *)
(***************************************************************************)
\* C21: a request that is answered 400 was rejected before anything was
\* asked of the catalog for it: the registry was not looked up (the
\* collection listing) and no search was handed to the backend.
C21_ValidateBeforeUpstream ==
    (Answered /\ resp.status = 400) =>
        /\ "get_layer_from_collections" \notin Range(resp.effects)
        /\ ~resp.searched

(* Properties of the layer registry. *)
\* two builds were given the same arguments
SameBuildArguments(a, b) == a.with_tms = b.with_tms

\* the collection gives its layers no time values of its own and its
\* first interval has no end
EndsNow(collection_id) ==
    \E i \in DOMAIN registry.catalog.collections :
        LET c == registry.catalog.collections[i] IN
        /\ c.id = collection_id
        /\ ~c.has_cube_time
        /\ c.intervals # << >>
        /\ ~c.intervals[1].has_end

LayerIds(layers) == [i \in DOMAIN layers |-> layers[i][1]]

WithoutTime(layer) == [layer EXCEPT !.time = << >>]

MalformedInteger ==
    \E b \in BaseRequests :
        /\ b.endpoint = endpoint
        /\ \E k \in {"tilematrix", "tilerow", "tilecol", "i", "j"} :
              /\ Has(b.query, k)
              /\ Has(Req, k)
              /\ Req[k] \notin IntTexts
              /\ Sans(Req, k) = Sans(b.query, k)

\* C23: a /wmts request whose TILEMATRIX, TILEROW, TILECOL, I or J is not an
\* integer is answered 400, never 5xx.
C23_MalformedParameters ==
    (Answered /\ endpoint = "wmts" /\ MalformedInteger) =>
        /\ resp.status = 400
        /\ resp.status < 500

SearchOptions ==
    IF "search_options" \in DictKeys(mosaic.kwargs)
    THEN DictGet(mosaic.kwargs, "search_options", << >>)
    ELSE << >>

\* C25: tile(x, y, z, search_options=O, ...) calls get_assets with the
\* polygon of the tile bounds and every entry of O as a keyword argument,
\* and an image it returns carries timings.
C25_SearchOptionForwarding ==
    mosaic # NoTile =>
        /\ mosaic.get_assets.geom =
               <<"Polygon", <<"bounds", mosaic.tile_x, mosaic.tile_y, mosaic.tile_z>> >>
        /\ \A i \in DOMAIN SearchOptions :
              SearchOptions[i] \in Range(mosaic.get_assets.kwargs)
        /\ mosaic.result.kind = "image" => mosaic.result.timings # << >>

\* the items the search returned that can be read for the tile
Usable == {i \in DOMAIN mosaic.mosaic_assets :
              mosaic.mosaic_assets[i] \in mosaic.readable}

\* C26: when the search returned items, an item whose asset cannot be
\* opened or read is skipped and the others are composited: the tile
\* request fails only if no usable item remains.
C26_PartialCompositing ==
    (TileCalled /\ mosaic.mosaic_assets # << >>) =>
        /\ Usable # {} => mosaic.result.kind = "image"
        /\ mosaic.result.kind = "raise" => Usable = {}

\* the same request with its parameter names, and the values of REQUEST and
\* SERVICE, in lower case
Canonical(q) ==
    [k \in {Lower(r) : r \in DOMAIN q} |->
        LET v == q[CHOOSE r \in DOMAIN q : Lower(r) = k]
        IN IF k \in {"request", "service"} THEN Lower(v) ELSE v]

Respond(q, out) ==
    IF endpoint = "wmts"
    THEN web_map_tile_service(q, out)
    ELSE web_map_service(q, out)

\* the response, with the values its detail quotes in lower case
QuotedLower(r) == [r EXCEPT !.v = [i \in DOMAIN @ |-> Lower(@[i])]]

\* C27 as stated: a request and the same request spelled in another letter
\* case (parameter names, REQUEST and SERVICE values) get the same
\* response: same status, same detail, same image.
C27_SameResponse ==
    Answered =>
        \A out \in BackendOutcomes :
            resp = Respond(raw, out) => resp = Respond(Canonical(raw), out)

\* C27: a request and the same request spelled in another letter case
\* (parameter names, REQUEST and SERVICE values) get the same status, the
\* same image or document and the same detail, but for the letter case of
\* the REQUEST or SERVICE value that the detail quotes as it was sent.
C27_CaseInsensitive ==
    Answered =>
        \A out \in BackendOutcomes :
            resp = Respond(raw, out) =>
                QuotedLower(resp) = QuotedLower(Respond(Canonical(raw), out))

\* GetTile sent as REQUEST=GetTile under upper-case names, without its
\* TILEMATRIXSET: both spellings are answered 400 for the missing key, one
\* quoting GetTile and the other gettile
C27_Witness ==
    /\ Answered
    /\ endpoint = "wmts"
    /\ "SERVICE" \in DOMAIN raw
    /\ "request" \in DOMAIN raw /\ raw["request"] = "GetTile"
    /\ resp.status = 400
    /\ resp.v = <<"GetTile">>
    /\ \A out \in BackendOutcomes :
          /\ Respond(Canonical(raw), out).v = <<"gettile">>
          /\ Respond(Canonical(raw), out).msg = resp.msg
          /\ Respond(Canonical(raw), out).keys = resp.keys

\* the operations of the endpoint, as REQUEST names them in lower case
Operations ==
    IF endpoint = "wmts"
    THEN {"getcapabilities", "gettile", "getfeatureinfo"}
    ELSE {"getcapabilities", "getmap", "getfeatureinfo"}

\* the request passed the SERVICE and VERSION checks
VersionAccepted ==
    /\ ServiceGiven
    /\ Has(Req, "version") => Req["version"] \in Range(SupportedVersions)

\* C28: a request without REQUEST is answered 400 ("Missing WMTS 'REQUEST'
\* parameter." on /wmts), and a REQUEST that names none of the operations
\* of the endpoint, in any letter case, is answered 400, on /wmts with the
\* detail that lists GetCapabilities, GetTile and GetFeatureInfo; a REQUEST
\* that names an operation is never answered with that detail.
C28_RequestDispatch ==
    (Answered /\ VersionAccepted) =>
        /\ ~Has(Req, "request") =>
              /\ resp.status = 400
              /\ endpoint = "wmts" => resp.msg = "Missing WMTS 'REQUEST' parameter."
        /\ (Has(Req, "request") /\ Req["request"] # ""
               /\ Lower(Req["request"]) \notin Operations) =>
              /\ resp.status = 400
              /\ endpoint = "wmts" =>
                    /\ resp.msg = "Invalid 'REQUEST' parameter: {request_type}. Should be one of ['GetCapabilities', 'GetTile', 'GetFeatureInfo']."
                    /\ resp.v = <<Req["request"]>>
        /\ RequestIs(Operations) =>
              resp.msg # "Invalid 'REQUEST' parameter: {request_type}. Should be one of ['GetCapabilities', 'GetTile', 'GetFeatureInfo']."

\* C29: for every registry, the one without layers included, the WMS
\* GetCapabilities branch answers 200 and the extent of the service is the
\* union of the bboxes of the layers: the least xmin and ymin and the
\* greatest xmax and ymax.
C29_ServiceExtent ==
    \A b \in DOMAIN registry.built :
        LET layers == registry.built[b].layers
            r      == wms_getcapabilities(layers)
        IN /\ r.status = 200
           /\ \A i \in DOMAIN layers :
                 /\ r.service_dict[1] <= layers[i][2].bbox[1]
                 /\ r.service_dict[2] <= layers[i][2].bbox[2]
                 /\ r.service_dict[3] >= layers[i][2].bbox[3]
                 /\ r.service_dict[4] >= layers[i][2].bbox[4]
           /\ \A n \in 1..4 :
                 \E i \in DOMAIN layers : r.service_dict[n] = layers[i][2].bbox[n]

(* Properties of the catalog client. *)
\* the aggregations of the response that have the name asked for
Named ==
    {i \in DOMAIN agg.client.aggregate.aggregations :
        agg.client.aggregate.aggregations[i].name = agg.aggregation}

\* C30: get_aggregation returns [] and sends no aggregate request when the
\* aggregation is not among the supported ones; otherwise it sends one
\* request, and returns [] when the response is empty or has no aggregation
\* of that name, and else the buckets of the aggregation of that name,
\* whatever other aggregations the response holds.
C30_AggregationLookup ==
    agg.called =>
        IF agg.aggregation \notin Range(agg.client.supported)
        THEN /\ agg.result.value = << >>
             /\ agg.result.requests = << >>
        ELSE /\ agg.result.requests =
                    <<[collection |-> agg.collection_id,
                       aggregations |-> agg.aggregation, params |-> agg.params]>>
             /\ IF agg.client.aggregate.empty \/ Named = {}
                THEN agg.result.value = << >>
                ELSE \E i \in Named :
                        agg.result.value = agg.client.aggregate.aggregations[i].buckets

\* datetime_frequency asked of a catalog whose response has a total_count
\* aggregation before it: the buckets of datetime_frequency are returned
C30_Witness ==
    /\ agg.called
    /\ agg.aggregation = "datetime_frequency"
    /\ agg.client.supported = <<"total_count", "datetime_frequency">>
    /\ ~agg.client.aggregate.empty
    /\ Len(agg.client.aggregate.aggregations) = 2
    /\ agg.client.aggregate.aggregations[1].name = "total_count"
    /\ agg.client.aggregate.aggregations[2].name = "datetime_frequency"
    /\ agg.client.aggregate.aggregations[1].buckets
           # agg.client.aggregate.aggregations[2].buckets
    /\ agg.result.value = agg.client.aggregate.aggregations[2].buckets
    /\ Len(agg.result.requests) = 1

(***************************************************************************)
(* The order of the checks of a WMTS tile request.                         *)
(***************************************************************************)
\* the request reached the GetTile or the GetFeatureInfo branch of /wmts
TileBranch ==
    /\ endpoint = "wmts" /\ ServiceGiven
    /\ Get(Req, "version", "1.0.0") = "1.0.0"
    /\ RequestIs({"gettile", "getfeatureinfo"})

\* the time list of the layer the request names, when it declares one
ListedTimes ==
    IF RequestedLayer.has_time THEN Range(RequestedLayer.time) ELSE {}

\* the detail of the first check the request fails, in the order
\* missing keys, FORMAT (INFOFORMAT for GetFeatureInfo), LAYER, STYLE,
\* TIME missing, TIME invalid, TILEMATRIXSET; "none" when it passes all
FirstFailure ==
    LET is_tile == RequestIs({"gettile"})
           keys == IF is_tile THEN GetTileKeys ELSE GetFeatureInfoKeys
    IN
    IF keys \ DOMAIN Req # {}
    THEN "Missing '{request_type}' parameters: {missing_keys}"
    ELSE IF is_tile /\ Req["format"] \notin Range(supported_format)
    THEN "Invalid 'FORMAT' parameter: {req['format']}. Should be one of {self.supported_format}."
    ELSE IF ~is_tile /\ Req["infoformat"] # "application/geo+json"
    THEN "Invalid 'InfoFormat' parameter: {req['infoformat']}. Should be 'application/geo+json'."
    ELSE IF Req["layer"] \notin DOMAIN LayerRegistry
    THEN "Invalid 'LAYER' parameter: {req['layer']}. Should be one of {list(layers)}."
    ELSE IF (IF Req["style"] = "" THEN "default" ELSE Req["style"]) # "default"
    THEN "Invalid STYLE parameters {req_style} for layer {layer['id']}"
    ELSE IF ListedTimes # {} /\ ~Has(Req, "time")
    THEN "Missing 'TIME' parameters for layer {layer['id']}"
    ELSE IF ListedTimes # {} /\ Req["time"] \notin ListedTimes
    THEN "Invalid 'TIME' parameter: {req_time}. Not available."
    ELSE IF Req["tilematrixset"] \notin supported_tms
    THEN "Invalid 'TILEMATRIXSET' parameter: {tms_id}. Should be one of {self.supported_tms.list()}."
    ELSE "none"

CheckDetails ==
    { "Missing '{request_type}' parameters: {missing_keys}",
      "Invalid 'FORMAT' parameter: {req['format']}. Should be one of {self.supported_format}.",
      "Invalid 'InfoFormat' parameter: {req['infoformat']}. Should be 'application/geo+json'.",
      "Invalid 'LAYER' parameter: {req['layer']}. Should be one of {list(layers)}.",
      "Invalid STYLE parameters {req_style} for layer {layer['id']}",
      "Missing 'TIME' parameters for layer {layer['id']}",
      "Invalid 'TIME' parameter: {req_time}. Not available.",
      "Invalid 'TILEMATRIXSET' parameter: {tms_id}. Should be one of {self.supported_tms.list()}." }

\* C31: a WMTS GetTile request is checked in the order missing keys,
\* FORMAT, LAYER, STYLE (an empty STYLE standing for "default"), TIME
\* missing, TIME invalid, TILEMATRIXSET, and GetFeatureInfo in the same
\* order with INFOFORMAT for FORMAT: the answer is 400 with the detail of
\* the first check that fails and of no later one, nothing is searched,
\* and a request that passes them all gets none of these details.  So a
\* bad style without TIME gets the STYLE detail, and a bad TILEMATRIXSET
\* is reported only when the TIME checks pass.
C31_CheckOrder ==
    (Answered /\ TileBranch) =>
        IF FirstFailure # "none"
        THEN resp.status = 400 /\ resp.msg = FirstFailure /\ ~resp.searched
        ELSE resp.msg \notin CheckDetails

C31_Witness ==
    /\ Answered /\ TileBranch /\ RequestIs({"gettile"})
    /\ GetTileKeys \subseteq DOMAIN Req
    /\ Req["layer"] = "c1_visual" /\ Req["style"] = "default"
    /\ ~Has(Req, "time") /\ Req["tilematrixset"] = "Bogus"
    /\ resp.status = 400
    /\ resp.msg = "Missing 'TIME' parameters for layer {layer['id']}"

(* Properties of the tile matrix sets of a layer. *)
\* the tilematrixsets the render preset of a layer declares
Declared(layer) ==
    LET c == CHOOSE i \in DOMAIN registry.catalog.collections :
                 registry.catalog.collections[i].id = layer.collection
    IN DictGet(registry.catalog.collections[c].renders, layer.id[3], << >>)

DeclaredTms(layer) == DictGet(Declared(layer), "tilematrixsets", << >>)

\* C32: in a registry built with the supported schemes, the limits of a
\* scheme of a layer are populated only when the render preset of the layer
\* itself declares exactly one tile matrix set; when it declares several,
\* or none and the supported schemes are enumerated, every scheme of the
\* layer has null limits - also when exactly one scheme is supported.
C32_LimitsOfOneDeclared ==
    \A b \in DOMAIN registry.built :
        \A i \in DOMAIN registry.built[b].layers :
            LET layer == registry.built[b].layers[i][2] IN
            \A k \in DOMAIN layer.tilematrixsets :
                layer.tilematrixsets[k][2] # NoLimits =>
                    Len(DeclaredTms(layer)) = 1

(* Properties of the time list of a layer. *)
\* the collection a layer is made from, and what its preset says of an
\* aggregation
CollectionOf(layer) ==
    registry.catalog.collections[
        CHOOSE i \in DOMAIN registry.catalog.collections :
            registry.catalog.collections[i].id = layer.collection]

NamesFrequency(layer) ==
    LET aggregation == DictGet(Declared(layer), "aggregation", Null)
    IN IsTrue(aggregation) /\ aggregation.s = "datetime_frequency"

\* the collection lists the values of its datacube time dimension
ListsValues(collection) ==
    collection.has_cube_time /\ collection.has_cube_values

\* the day an instant of the catalog falls on
DayOf(t) == (CHOOSE p \in InstantTexts : p[1] = t)[2]

\* the days of the buckets with frequency > 0 of the datetime_frequency
\* aggregation the catalog answers with
BucketDays(collection) ==
    UNION { { DayOf(a.buckets[k].key) :
                k \in {n \in DOMAIN a.buckets : a.buckets[n].frequency > 0} } :
            a \in {x \in Range(collection.aggregate.aggregations) :
                       x.name = "datetime_frequency"} }

\* C33: every render preset of the catalog gets its layer, and the time
\* list of the layer comes from exactly one source: the values of the
\* datacube time dimension of the collection whenever it lists any;
\* otherwise the buckets with frequency > 0 of the datetime_frequency
\* aggregation when the preset names it, and the aggregation endpoint is
\* read for such layers only; otherwise one date for each day of the first
\* temporal interval, an open end standing for the current time.  Every
\* value is a YYYY-MM-DD day.
C33_TimeSource ==
    \A b \in DOMAIN registry.built :
        LET build == registry.built[b] IN
        /\ \A c \in Range(registry.catalog.collections) :
              \A r \in DOMAIN c.renders :
                  \E i \in DOMAIN build.layers :
                      build.layers[i][1] = <<c.id, "_", c.renders[r][1]>>
        /\ \A q \in Range(build.aggregate_requests) :
              \E c \in Range(registry.catalog.collections) :
                  /\ c.id = q.collection /\ ~ListsValues(c)
                  /\ \E r \in DOMAIN c.renders :
                        LET aggregation == DictGet(c.renders[r][2], "aggregation", Null)
                        IN IsTrue(aggregation) /\ aggregation.s = "datetime_frequency"
        /\ \A i \in DOMAIN build.layers :
              LET layer == build.layers[i][2]
                  c     == CollectionOf(layer)
              IN /\ Range(layer.time) \subseteq PaddedDates
                 /\ IF ListsValues(c)
                    THEN layer.time = [k \in DOMAIN c.cube_time |-> DayOf(c.cube_time[k])]
                    ELSE IF NamesFrequency(layer)
                    THEN /\ Range(layer.time) = BucketDays(c)
                         /\ \E q \in Range(build.aggregate_requests) :
                               q.collection = c.id
                    ELSE c.intervals # << >> =>
                         /\ layer.time # << >>
                         /\ layer.time[1] = strftime(c.intervals[1].start).date
                         /\ Len(layer.time) =
                               1 + DaysBetween(c.intervals[1].start,
                                               IF c.intervals[1].has_end
                                               THEN c.intervals[1].end
                                               ELSE build.today)
                         /\ \A k \in 2..Len(layer.time) :
                               layer.time[k] =
                                   strftime(plus_timedelta(strptime(layer.time[k - 1]), 1, 0)).date

Served == Answered /\ resp.searched

\* C35: handling a tile or map request, with or without a color_formula,
\* an expression, a colormap or a TIME of its own, leaves every layer of
\* the registry as it was built: render parameters, time list, bbox and
\* query string are those get_layer_from_collections gave it.
C35_RegistryUntouched ==
    \A b \in DOMAIN registry.built :
        registry.built[b].layers =
            get_layer_from_collections(registry.catalog,
                                       registry.built[b].with_tms,
                                       registry.supported_tms,
                                       registry.built[b].today)

\* a request with an expression of its own was served for the layer whose
\* preset has another one
C35_Witness ==
    /\ Served /\ endpoint = "wmts"
    /\ Has(raw, "expression") /\ Has(raw, "color_formula") /\ Has(raw, "time")
    /\ raw["layer"] = <<"live", "_", "ndvi">>
    /\ resp.search.datetime = Window("2024-02-29")
    /\ DictGet(ServedLayers[1][2].render, "expression", Null)
           = Text("(B08-B04)/(B08+B04)")

(* Properties of the result cache shared by the clients. *)
\* C36: a call of get_assets, get_stac_item or get_layer_from_collections
\* is never given a result computed for a call with other forwarded
\* headers, whatever the order of the calls.
C36_HeaderIsolation ==
    \A t \in Threads :
        thr[t].pc = "done" =>
            thr[t].value[3].headers = thr[t].call.headers

\* the second client asked for the item the cache already held for the
\* first, and its call went to the catalog with its own headers
C36_Witness ==
    /\ CachingOn /\ InWindow
    /\ thr["t1"].pc = "done" /\ ~thr["t1"].hit
    /\ thr["t1"].call = ItemCall("u1", "c1", "i1", H1)
    /\ thr["t1"].value[3].headers = H1
    /\ Len(caches["get_stac_item"]) = 2
    /\ \E i \in 1..2 : caches["get_stac_item"][i].value[3].headers = H0

\* C37: failures are never cached.  When the body of a cached operation
\* raises - get_stac_item finding no item, or any catalog call failing
\* after its retries - the cache is left as it was and holds nothing of
\* the failure, and the next call with the same key queries the catalog
\* again; an empty item list returned by get_assets is a value and is
\* stored for the TTL like any other.
C37_FailuresNotCached ==
    /\ [](\A op \in Ops : \A i \in DOMAIN caches[op] :
             /\ caches[op][i].value[4] # "fails"
             /\ op = "get_stac_item" => caches[op][i].value[4] # "empty")
    /\ [][\A t \in Threads :
            /\ (thr[t].pc = "miss" /\ thr'[t].pc = "raised") => caches' = caches
            /\ (/\ thr[t].pc = "raised" /\ thr'[t].pc \in {"done", "miss"}
                /\ KeyOf(thr'[t].call) = thr[t].key)
                   => thr'[t].pc = "miss"
            /\ (/\ thr[t].pc = "fetched" /\ thr'[t].pc = "done"
                /\ thr[t].value[4] = "empty" /\ cfg.maxsize >= 1)
                   => \E i \in DOMAIN caches'[thr[t].call.op] :
                         LET e == caches'[thr[t].call.op][i] IN
                         /\ e.key = thr[t].key /\ e.value = thr[t].value
                         /\ e.expires = now + cfg.ttl]_vars

\* inside the window and with the cache enabled, the second call of a key
\* was answered by a second search: the first one had failed
C37_Witness ==
    /\ CachingOn /\ InWindow /\ ncalls = 2
    /\ thr["t1"].pc = "done" /\ ~thr["t1"].hit
    /\ thr["t1"].call = ItemCall("u1", "c1", "i1", H0)
    /\ nsearch[<<"get_stac_item", thr["t1"].key>>] = 2
    /\ Len(caches["get_stac_item"]) = 1

ServedLayer ==
    LET key == IF endpoint = "wmts" THEN "layer" ELSE "layers"
        i   == CHOOSE i \in DOMAIN ServedLayers : ServedLayers[i][1] = raw[key]
    IN ServedLayers[i][2]

\* the layer has a time list and the list is empty
EmptyTimeList(layer) == layer.has_time /\ layer.time = << >>

\* C39: a tile or map request for a layer whose time list exists but is
\* empty is answered 400, with or without a TIME parameter, and never gets
\* to the search.
C39_EmptyTimeListRejects ==
    (Answered /\ EmptyTimeList(ServedLayer)) =>
        (resp.status = 400 /\ ~resp.searched)

=============================================================================
